---- MODULE Spec2Model ----
(***************************************************************************)
(* Binder splitter (src/Tabs/Splitter.py): text extraction, adaptive-DPI   *)
(* OCR with its result caches, the rule matching engine and output         *)
(* assembly, as state machines.                                            *)
(*                                                                         *)
(* Text is modelled at word granularity: a text is a sequence of tokens.   *)
(* A token is a word (in upper or lower case), a punctuation mark or a     *)
(* line break; every token has a character length, so len() of a text is   *)
(* the sum of its token lengths plus the separating blanks.  A compiled    *)
(* pattern is the word it searches for.                                    *)
(***************************************************************************)
EXTENDS Integers, Sequences, FiniteSets, TLC

VARIABLES
    binder,     \* the pages of the PDF at `path`: native text, table flag, image
    mem,        \* the module-level globals of Splitter.py (caches, _DOC, flags)
    disk,       \* Cache/ocr/<binder key>/<page>_<scope>.json files
    templates,  \* Cache/templates/<RULE_SLUG>/<fingerprint>.json files
    folder,     \* the file names in the binder's output folder; NoFolder if absent
    run,        \* position and locals of process_pdf / apply_rules_collect
    last,       \* the most recent call of the session API and what it returned
    hist,       \* history of the text session or run, for stating properties
    steps       \* number of API calls made so far (bounded by MaxOps)

vars == <<binder, mem, disk, templates, folder, run, last, hist, steps>>

-----------------------------------------------------------------------------
(* Bounds of the model *)

MaxOps == 4

-----------------------------------------------------------------------------
(* Generic helpers on Python dicts, modelled as functions with a finite    *)
(* domain.                                                                 *)

EmptyMap == [x \in {} |-> 0]

Put(f, k, v) == [x \in (DOMAIN f) \cup {k} |-> IF x = k THEN v ELSE f[x]]

Get(f, k, d) == IF k \in DOMAIN f THEN f[k] ELSE d

Pop(f, k) == [x \in (DOMAIN f) \ {k} |-> f[x]]

Max2(a, b) == IF a >= b THEN a ELSE b

Min2(a, b) == IF a <= b THEN a ELSE b

-----------------------------------------------------------------------------
(* Text *)

NL == "\n"

\* punctuation, line breaks and a ruled line of 100 underscores
JunkToks == {"-", NL, "_100_"}

Upper(t) ==
    CASE t = "req"   -> "REQ"
      [] t = "forb"  -> "FORB"
      [] t = "body"  -> "BODY"
      [] OTHER       -> t

TokLen(t) ==
    CASE t \in {"B40", "b40"}   -> 40
      [] t \in {"B120"}         -> 120
      [] t = "B90M"             -> 94371840
      [] t = "_100_"            -> 100
      [] t \in JunkToks         -> 1
      [] OTHER                  -> 4

RECURSIVE SumLen(_)
SumLen(s) == IF s = <<>> THEN 0 ELSE TokLen(Head(s)) + SumLen(Tail(s))

\* len(s): the characters of the tokens plus one blank between neighbours
TextLen(s) == IF s = <<>> THEN 0 ELSE SumLen(s) + (Len(s) - 1)

IsWordTok(t) == t \notin JunkToks

\* _clean_text: upper-case, every run outside [A-Z0-9#+/] becomes one blank,
\* blanks collapsed and stripped: what is left is the upper-cased words.
clean_text(s) ==
    LET w == SelectSeq(s, IsWordTok)
    IN  [k \in 1..Len(w) |-> Upper(w[k])]

RECURSIVE LStrip(_)
LStrip(s) == IF s # <<>> /\ Head(s) = NL THEN LStrip(Tail(s)) ELSE s

RECURSIVE RStrip(_)
RStrip(s) ==
    IF s # <<>> /\ s[Len(s)] = NL THEN RStrip(SubSeq(s, 1, Len(s) - 1)) ELSE s

\* str.strip()
Strip(s) == RStrip(LStrip(s))

\* needle in hay
Contains(hay, needle) ==
    \E k \in 0..(Len(hay) - Len(needle)) :
        SubSeq(hay, k + 1, k + Len(needle)) = needle

\* pattern.search(text): a pattern is the word it looks for
Search(p, text) == \E k \in 1..Len(text) : text[k] = p

\* _hits(text, patterns): patterns is a list of compiled patterns
Hits(text, patterns) ==
    Cardinality({k \in 1..Len(patterns) : Search(patterns[k], text)})

-----------------------------------------------------------------------------
(* The PDF document.  A page carries its native text layer, whether its    *)
(* drawing looks like a table, and the identity of its rendered image.     *)

NumPages == Len(binder.pages)

Pages == 0..(NumPages - 1)

\* _DOC[i]
DocPage(i) == binder.pages[i + 1]

\* (_DOC[i].get_text("text") or "").strip()
NativeText(i) == Strip(DocPage(i).text)

\* _page_text_blocks: the stripped block texts joined by line breaks
page_text_blocks(w, i) == IF ~w.DOC THEN <<>> ELSE Strip(DocPage(i).text)

\* _page_text_words: the words joined by blanks
page_text_words(w, i) ==
    IF ~w.DOC THEN <<>> ELSE SelectSeq(DocPage(i).text, LAMBDA t : t # NL)

\* _looks_like_table
looks_like_table(w, i) == w.DOC /\ DocPage(i).table

\* "\n".join(t for t in parts if t)
RECURSIVE JoinNL(_)
JoinNL(parts) ==
    IF parts = <<>> THEN <<>>
    ELSE LET rest == JoinNL(Tail(parts))
         IN  IF Head(parts) = <<>> THEN rest
             ELSE IF rest = <<>> THEN Head(parts)
             ELSE Head(parts) \o <<NL>> \o rest

-----------------------------------------------------------------------------
(* Module-level state of Splitter.py.  Operators below take and return a   *)
(* record w holding the globals (the fields of mem) together with the      *)
(* files of the disk cache and of the template cache.                      *)

ConfNone == -1      \* avg_conf is None
DpiNone == 0        \* dpi=None
SigNone == 0        \* image_sig is None

FreshGlobals ==
    [ DOC                   |-> FALSE,
      ALLOW_OCR             |-> FALSE,
      TEXT_CACHE_RAW        |-> EmptyMap,
      TEXT_CACHE_CLEAN      |-> EmptyMap,
      REGION_TEXT_CACHE     |-> EmptyMap,
      RANGE_LOOKBACK_HINTS  |-> {},
      FORCED_OCR_CACHE      |-> {},
      OCR_PAGE_DPI          |-> EmptyMap,
      OCR_PAGE_CONF         |-> EmptyMap,
      OCR_RESULT_CACHE      |-> EmptyMap,
      OCR_PAGE_SIG          |-> EmptyMap,
      PATTERN_HIT_CACHE     |-> EmptyMap,
      PATTERN_FIRST_CACHE   |-> EmptyMap,
      PATTERN_CACHE_BY_PAGE |-> EmptyMap,
      CACHE_BINDER_KEY      |-> 0,
      CANCELLED             |-> FALSE,
      open_docs             |-> 0,      \* documents fitz.open(pdf_path) of
                                        \* begin_text_session opened, not closed
      ocr_runs              |-> 0,      \* calls of pytesseract.image_to_data
      ocr_log               |-> <<>>,   \* the passes of the while loop of the
                                        \* session's latest OCR request
      native_reads          |-> 0 ]     \* calls of _DOC[i].get_text("text")

GlobalNames == DOMAIN FreshGlobals

World(m, d, t) == m @@ [disk |-> d, templates |-> t]

GlobalsOf(w) == [f \in GlobalNames |-> w[f]]

ADAPTIVE_DPI_STEPS == <<200, 260, 320, 360>>

\* _invalidate_pattern_cache
invalidate_pattern_cache(w, page_idx) ==
    LET keys == Get(w.PATTERN_CACHE_BY_PAGE, page_idx, {})
    IN  [w EXCEPT
          !.PATTERN_CACHE_BY_PAGE = Pop(@, page_idx),
          !.PATTERN_HIT_CACHE =
              [k \in (DOMAIN @) \ {<<x[1], x[2], x[3]>> : x \in {y \in keys : y[4] = "hit"}}
                  |-> @[k]],
          !.PATTERN_FIRST_CACHE =
              [k \in (DOMAIN @) \ {<<x[1], x[2], x[3]>> : x \in {y \in keys : y[4] = "first"}}
                  |-> @[k]] ]

\* _cache_file_path: None unless the session has a binder cache directory
cache_file_path(w, page_idx, scope) == <<w.CACHE_BINDER_KEY, page_idx, scope>>

\* a cache file as written by _save_disk_cache: a JSON object with raw and
\* clean.  Other files found at the path: "unreadable" is not JSON, "array"
\* is JSON but no object, "no_text" is an object lacking raw or clean.
DiskFile(entry) == entry @@ [file |-> "entry"]

\* _load_disk_cache returning an entry for whatever file exists at the path
HasDiskCache_unvalidated(w, page_idx, scope) ==
    /\ w.CACHE_BINDER_KEY # 0
    /\ cache_file_path(w, page_idx, scope) \in DOMAIN w.disk

\* _load_disk_cache returns an entry
HasDiskCache(w, page_idx, scope) ==
    /\ w.CACHE_BINDER_KEY # 0
    /\ cache_file_path(w, page_idx, scope) \in DOMAIN w.disk
    /\ w.disk[cache_file_path(w, page_idx, scope)].file = "entry"

\* _load_disk_cache (when HasDiskCache)
load_disk_cache(w, page_idx, scope) ==
    [f \in {"raw", "clean", "dpi", "avg_conf", "length", "scope", "image_sig"} |->
        w.disk[cache_file_path(w, page_idx, scope)][f]]

\* _save_disk_cache
save_disk_cache(w, page_idx, scope, entry) ==
    IF w.CACHE_BINDER_KEY = 0 THEN w
    ELSE [w EXCEPT !.disk =
            Put(@, cache_file_path(w, page_idx, scope),
                DiskFile([entry EXCEPT !.scope = scope]))]

\* the assignments of _apply_cached_result after the pattern caches are dropped
apply_entry_fields(w, page_idx, key, entry) ==
    [w EXCEPT
      !.TEXT_CACHE_RAW   = Put(@, page_idx, entry.raw),
      !.TEXT_CACHE_CLEAN = Put(@, page_idx, entry.clean),
      !.OCR_PAGE_DPI     = IF entry.dpi # 0 THEN Put(@, key, entry.dpi) ELSE @,
      !.OCR_PAGE_CONF    = IF entry.avg_conf # ConfNone
                           THEN Put(@, key, entry.avg_conf) ELSE @,
      !.OCR_PAGE_SIG     = IF entry.image_sig # SigNone
                           THEN Put(@, key, entry.image_sig) ELSE @ ]

\* _apply_cached_result
apply_cached_result(w, page_idx, scope, entry) ==
    apply_entry_fields(
        invalidate_pattern_cache(
            [w EXCEPT !.OCR_RESULT_CACHE = Put(@, <<page_idx, scope>>, entry)],
            page_idx),
        page_idx, <<page_idx, scope>>, entry)

\* _select_initial_dpi
select_initial_dpi(w, page_idx, scope, requested) ==
    LET base0 == 200
        base1 == IF requested # DpiNone THEN Max2(base0, requested) ELSE base0
        base2 == IF looks_like_table(w, page_idx)
                 THEN Max2(base1, IF scope = "full" THEN 320 ELSE 300)
                 ELSE base1
    IN  Max2(150, Min2(360, base2))

\* _next_dpi
next_dpi(current) ==
    LET above == {k \in 1..Len(ADAPTIVE_DPI_STEPS) : ADAPTIVE_DPI_STEPS[k] > current}
    IN  IF above = {} THEN current
        ELSE ADAPTIVE_DPI_STEPS[CHOOSE k \in above : \A j \in above : k <= j]

\* _scope_quality_threshold
scope_quality_threshold(scope) == IF scope = "full" THEN 80 ELSE 35

\* _needs_escalation without the confidence test
needs_escalation_length_only(scope, text_length, avg_conf, dpi) ==
    dpi < ADAPTIVE_DPI_STEPS[Len(ADAPTIVE_DPI_STEPS)]
    /\ text_length < scope_quality_threshold(scope)

\* _needs_escalation
needs_escalation(scope, text_length, avg_conf, dpi) ==
    LET max_dpi == ADAPTIVE_DPI_STEPS[Len(ADAPTIVE_DPI_STEPS)]
    IN  IF dpi >= max_dpi THEN FALSE
        ELSE IF avg_conf # ConfNone /\ avg_conf < 85 THEN TRUE
        ELSE text_length < scope_quality_threshold(scope)

\* the merge of _update_page_cache
merge_raw(existing_raw, raw) ==
    IF raw = <<>> THEN existing_raw
    ELSE IF existing_raw = <<>> THEN raw
    ELSE IF clean_text(raw) = clean_text(existing_raw)
            \/ Strip(raw) = Strip(existing_raw) THEN existing_raw
    ELSE IF Strip(existing_raw) # <<>> /\ Contains(raw, Strip(existing_raw)) THEN raw
    ELSE IF Strip(raw) # <<>> /\ Contains(existing_raw, Strip(raw)) THEN existing_raw
    ELSE existing_raw \o <<NL>> \o raw

\* _update_page_cache writing the raw text only
put_page_text_raw_only(w, page_idx, combined) ==
    [w EXCEPT !.TEXT_CACHE_RAW = Put(@, page_idx, combined)]

\* the two cache writes of _update_page_cache
put_page_text(w, page_idx, combined) ==
    [w EXCEPT !.TEXT_CACHE_RAW   = Put(@, page_idx, combined),
              !.TEXT_CACHE_CLEAN = Put(@, page_idx, clean_text(combined))]

\* _update_page_cache
update_page_cache(w, page_idx, raw) ==
    invalidate_pattern_cache(
        put_page_text(w, page_idx, merge_raw(Get(w.TEXT_CACHE_RAW, page_idx, <<>>), raw)),
        page_idx)

-----------------------------------------------------------------------------
(* The OCR engine.  What pytesseract returns for a page region at a DPI is *)
(* a property of the page: pg.ink is the text printed on the page and      *)
(* pg.ocr says how the engine copes with it.                               *)

\* the part of the printed text inside the cropped region
RegionInk(ink, scope) ==
    IF scope = "full" THEN ink
    ELSE IF scope = "bottom_strip" THEN SubSeq(ink, (Len(ink) \div 2) + 1, Len(ink))
    ELSE SubSeq(ink, (Len(ink) \div 3) + 1, Len(ink) - (Len(ink) \div 3))

\* pytesseract.image_to_data on the rendered, cropped image: the words read
\* and their mean confidence, or an exception
OcrEngine(pg, scope, dpi) ==
    LET ink == RegionInk(pg.ink, scope)
    IN  CASE pg.ocr = "clean"   -> [kind |-> "ok", raw |-> ink, conf |-> 90]
          [] pg.ocr = "lowconf" -> [kind |-> "ok", raw |-> ink,
                                    conf |-> IF dpi < 320 THEN 60 ELSE 90]
          [] pg.ocr = "faint"   -> IF dpi < 320
                                   THEN [kind |-> "ok", raw |-> <<>>, conf |-> ConfNone]
                                   ELSE [kind |-> "ok", raw |-> ink, conf |-> 90]
          [] pg.ocr = "flaky"   -> IF dpi < 300
                                   THEN [kind |-> "ok", raw |-> ink, conf |-> 90]
                                   ELSE [kind |-> "error", raw |-> <<>>, conf |-> ConfNone]
          [] OTHER              -> [kind |-> "error", raw |-> <<>>, conf |-> ConfNone]

\* _image_signature_from_image of the page's rendering
ImageSig(i) == DocPage(i).sig

\* the bookkeeping of one pass after _update_page_cache: w1 holds the merged
\* page text, raw and avg_conf are what this run read
ocr_record(w1, i, scope, current_dpi, sig, raw, avg_conf) ==
    LET key == <<i, scope>>
        combined_clean == Get(w1.TEXT_CACHE_CLEAN, i, clean_text(raw))
        length_metric  == IF scope = "full" THEN TextLen(combined_clean)
                          ELSE TextLen(clean_text(raw))
        entry == [raw       |-> Get(w1.TEXT_CACHE_RAW, i, raw),
                  clean     |-> combined_clean,
                  dpi       |-> current_dpi,
                  avg_conf  |-> avg_conf,
                  length    |-> length_metric,
                  scope     |-> scope,
                  image_sig |-> sig]
    IN  [w |-> [w1 EXCEPT
                 !.OCR_PAGE_DPI     = Put(@, key, current_dpi),
                 !.OCR_PAGE_CONF    = IF avg_conf # ConfNone
                                      THEN Put(@, key, avg_conf) ELSE @,
                 !.OCR_RESULT_CACHE = Put(@, key, entry),
                 !.ocr_log          = Append(@, [dpi |-> current_dpi, avg_conf |-> avg_conf,
                                                 length |-> length_metric])],
         image_sig |-> sig, length |-> length_metric, avg_conf |-> avg_conf]

\* the text and the confidence one OCR run yields; an exception yields none
RunRaw(o) == IF o.kind = "ok" THEN Strip(o.raw) ELSE <<>>

RunConf(o) == IF o.kind = "ok" THEN o.conf ELSE ConfNone

\* one pass of the body of `while True`, given the engine's outcome o
ocr_pass_with(w, i, scope, current_dpi, sig, o) ==
    ocr_record(update_page_cache([w EXCEPT !.ocr_runs = @ + 1], i, RunRaw(o)),
               i, scope, current_dpi, sig, RunRaw(o), RunConf(o))

\* one pass of the body of `while True` in _ocr_page_region_into_cache
ocr_pass(w, i, scope, current_dpi, image_sig) ==
    ocr_pass_with(w, i, scope, current_dpi,
                  IF scope = "full" THEN ImageSig(i) ELSE image_sig,
                  OcrEngine(DocPage(i), scope, current_dpi))

RECURSIVE ocr_escalate(_, _, _, _, _)

\* the end of one pass: stop, or go on at the next DPI step
escalate_next(r, i, scope, current_dpi) ==
    IF ~needs_escalation(scope, r.length, r.avg_conf, current_dpi)
       \/ next_dpi(current_dpi) <= current_dpi
    THEN [w |-> r.w, image_sig |-> r.image_sig]
    ELSE ocr_escalate(r.w, i, scope, next_dpi(current_dpi), r.image_sig)

\* the `while True` loop of _ocr_page_region_into_cache
ocr_escalate(w, i, scope, current_dpi, image_sig) ==
    IF w.CANCELLED THEN [w |-> w, image_sig |-> image_sig]
    ELSE escalate_next(ocr_pass(w, i, scope, current_dpi, image_sig),
                       i, scope, current_dpi)

\* needs_upgrade of _ocr_page_region_into_cache
\* the upgrade test with the DPI condition alone
needs_upgrade_dpi_only(scope, dpi, target_dpi, cache_entry) ==
    dpi # DpiNone /\ cache_entry.dpi < target_dpi

\* lines 797-806: the upgrade conditions of a cached entry
needs_upgrade(scope, dpi, target_dpi, cache_entry) ==
    \/ dpi # DpiNone /\ cache_entry.dpi < target_dpi
    \/ cache_entry.length < scope_quality_threshold(scope)
    \/ /\ cache_entry.avg_conf # ConfNone
       /\ cache_entry.avg_conf < 85
       /\ cache_entry.dpi < ADAPTIVE_DPI_STEPS[Len(ADAPTIVE_DPI_STEPS)]

\* the cached entry is good enough: copy it into the page caches and return
ocr_reuse(w1, i, key, ce) ==
    [w1 EXCEPT
      !.TEXT_CACHE_RAW   = Put(@, i, ce.raw),
      !.TEXT_CACHE_CLEAN = Put(@, i, ce.clean),
      !.OCR_PAGE_DPI     = Put(@, key, ce.dpi),
      !.OCR_PAGE_CONF    = IF ce.avg_conf # ConfNone THEN Put(@, key, ce.avg_conf) ELSE @]

\* after the loop: complete the final entry's signature and write it to disk
ocr_finish(r, i, scope) ==
    LET key == <<i, scope>>
        fe  == r.w.OCR_RESULT_CACHE[key]
        fe1 == IF scope = "full" /\ r.image_sig # SigNone /\ fe.image_sig = SigNone
               THEN [fe EXCEPT !.image_sig = r.image_sig] ELSE fe
    IN  IF key \in DOMAIN r.w.OCR_RESULT_CACHE
        THEN save_disk_cache([r.w EXCEPT !.OCR_RESULT_CACHE = Put(@, key, fe1)],
                             i, scope, fe1)
        ELSE r.w

\* _ocr_page_region_into_cache from the upgrade decision on: w1 holds the
\* entry restored from disk, if any
ocr_with_entry(w1, i, scope, dpi, target0) ==
    LET key       == <<i, scope>>
        has_entry == key \in DOMAIN w1.OCR_RESULT_CACHE
        target_dpi  == IF has_entry THEN Max2(target0, w1.OCR_RESULT_CACHE[key].dpi)
                       ELSE target0
        current_dpi == Max2(target_dpi, Get(w1.OCR_PAGE_DPI, key, target_dpi))
    IN  IF has_entry /\ ~needs_upgrade(scope, dpi, target0, w1.OCR_RESULT_CACHE[key])
        THEN ocr_reuse(w1, i, key, w1.OCR_RESULT_CACHE[key])
        ELSE ocr_finish(ocr_escalate([w1 EXCEPT !.ocr_log = <<>>], i, scope, current_dpi,
                                     SigNone),
                        i, scope)

\* _ocr_page_region_into_cache
ocr_page_region_into_cache(w, i, region, dpi) ==
    IF ~w.DOC \/ w.CANCELLED THEN w
    ELSE ocr_with_entry(
            IF <<i, region>> \notin DOMAIN w.OCR_RESULT_CACHE /\ HasDiskCache(w, i, region)
            THEN apply_cached_result(w, i, region, load_disk_cache(w, i, region))
            ELSE w,
            i, region, dpi, select_initial_dpi(w, i, region, dpi))

\* page_text without the final store into _TEXT_CACHE_RAW
page_text_unstored(w1, page_index, merged, tried) ==
    [w   |-> w1,
     ret |-> IF tried THEN Get(w1.TEXT_CACHE_RAW, page_index, merged) ELSE merged]

\* the end of page_text: w1 is the state after the OCR escalation, if tried
page_text_store(w1, page_index, merged, tried) ==
    LET merged1 == IF tried THEN Get(w1.TEXT_CACHE_RAW, page_index, merged) ELSE merged
    IN  [w   |-> [w1 EXCEPT !.TEXT_CACHE_RAW = Put(@, page_index, merged1)],
         ret |-> merged1]

\* page_text on a cache miss: merged is the native text of the page
page_text_miss(w0, page_index, merged) ==
    LET thin == merged = <<>> \/ TextLen(clean_text(merged)) < 100
        try  == thin /\ w0.ALLOW_OCR /\ w0.DOC
    IN  page_text_store(
            IF try THEN ocr_page_region_into_cache(w0, page_index, "full", DpiNone)
            ELSE w0,
            page_index, merged, try)

\* page_text: the new globals and the text returned
page_text(w, page_index) ==
    IF page_index \in DOMAIN w.TEXT_CACHE_RAW
    THEN [w |-> w, ret |-> w.TEXT_CACHE_RAW[page_index]]
    ELSE IF ~w.DOC THEN page_text_miss(w, page_index, <<>>)
    ELSE page_text_miss([w EXCEPT !.native_reads = @ + 1], page_index,
                        JoinNL(<<NativeText(page_index),
                                 page_text_blocks(w, page_index),
                                 page_text_words(w, page_index)>>))

\* the end of _page_cleaned: r is what page_text returned
page_cleaned_store(r, idx) ==
    [w   |-> [r.w EXCEPT !.TEXT_CACHE_CLEAN = Put(@, idx, clean_text(r.ret))],
     ret |-> clean_text(r.ret)]

\* _page_cleaned: the new globals and the text returned
page_cleaned(w, idx) ==
    IF idx \in DOMAIN w.TEXT_CACHE_CLEAN
    THEN [w |-> w, ret |-> w.TEXT_CACHE_CLEAN[idx]]
    ELSE page_cleaned_store(page_text(w, idx), idx)

\* the part of a page's text inside the band from start to end, both
\* percentages of the page height
ClipText(text, start, end) ==
    SubSeq(text, ((Len(text) * start) \div 100) + 1, (Len(text) * end) \div 100)

\* the band _get_region_clean reads: ordered, at least one percent high
RegionBand(start_frac, end_frac) ==
    LET lo == IF end_frac < start_frac THEN end_frac ELSE start_frac
        hi == IF end_frac < start_frac THEN start_frac ELSE end_frac
    IN  <<lo, IF hi = lo THEN (IF lo + 1 > 100 THEN 100 ELSE lo + 1) ELSE hi>>

\* pytesseract.image_to_string on the clipped page at 300 DPI, "" on error
RegionOcr(pg, band) ==
    IF OcrEngine(pg, "full", 300).kind = "ok"
    THEN ClipText(OcrEngine(pg, "full", 300).raw, band[1], band[2])
    ELSE <<>>

\* the text _get_region_clean extracts: the text layer inside the band, else
\* OCR of the band when OCR is allowed
region_text(w, page_idx, band) ==
    IF Strip(ClipText(DocPage(page_idx).text, band[1], band[2])) # <<>>
    THEN Strip(ClipText(DocPage(page_idx).text, band[1], band[2]))
    ELSE IF w.ALLOW_OCR THEN RegionOcr(DocPage(page_idx), band)
    ELSE <<>>

\* _get_region_clean: the new globals and the text returned
get_region_clean(w, page_idx, start_frac, end_frac) ==
    LET key == <<page_idx>> \o RegionBand(start_frac, end_frac)
    IN  IF ~w.DOC THEN [w |-> w, ret |-> <<>>]
        ELSE IF key \in DOMAIN w.REGION_TEXT_CACHE
        THEN [w |-> w, ret |-> w.REGION_TEXT_CACHE[key]]
        ELSE [w   |-> [w EXCEPT !.REGION_TEXT_CACHE =
                          Put(@, key, clean_text(region_text(w, page_idx,
                                                  RegionBand(start_frac, end_frac))))],
              ret |-> clean_text(region_text(w, page_idx,
                                             RegionBand(start_frac, end_frac)))]

-----------------------------------------------------------------------------
(* Template cache: one file per (rule, fingerprint of the clean text).     *)
(* The per-rule and global eviction caps (20 entries, 200 MB) are far      *)
(* above what the bounded runs of the session specifications store; the    *)
(* eviction is modelled with SpecTemplate, on stores at the caps.          *)

TEMPLATE_CACHE_VERSION == 1

\* text[:n]: the longest prefix of whole words that fits n characters
RECURSIVE PrefixChars(_, _)
PrefixChars(text, n) ==
    IF text = <<>> \/ TextLen(text) <= n THEN text
    ELSE PrefixChars(SubSeq(text, 1, Len(text) - 1), n)

\* a.startswith(b)
StartsWith(a, b) == Len(b) <= Len(a) /\ SubSeq(a, 1, Len(b)) = b

\* _template_extract_tokens, as the set its callers intersect
template_extract_tokens(clean, limit) ==
    LET long == SelectSeq(clean, LAMBDA t : TokLen(t) > 2)
        firsts == {k \in 1..Len(long) : \A j \in 1..(k - 1) : long[j] # long[k]}
        kept == {k \in firsts : Cardinality({j \in firsts : j < k}) < limit}
    IN  {long[k] : k \in kept}

\* _template_load_entry returns the entry: the file is a JSON object (not
\* "unreadable", not an "array") of the current version
template_load_entry(t) == t.file = "object" /\ t.version = TEMPLATE_CACHE_VERSION

\* _template_collect_entries: the valid entries stored for the rule
template_collect_entries(w, rule_name) ==
    {k \in DOMAIN w.templates : k[1] = rule_name /\ template_load_entry(w.templates[k])}

\* a score that leaves the prefix out
template_score_no_prefix(entry, prefix_seed, token_seed, seed_sig) ==
    (IF token_seed # {} /\ entry.tokens # {}
     THEN Cardinality(token_seed \cap entry.tokens) ELSE 0)
    + (IF seed_sig # SigNone /\ entry.image_sig # SigNone /\ entry.image_sig = seed_sig
       THEN 200 ELSE 0)

\* the score _template_match gives a stored entry
template_score(entry, prefix_seed, token_seed, seed_sig) ==
    (IF entry.prefix # <<>> /\ prefix_seed # <<>>
        /\ (StartsWith(entry.prefix, prefix_seed) \/ StartsWith(prefix_seed, entry.prefix))
     THEN 100 ELSE 0)
    + (IF token_seed # {} /\ entry.tokens # {}
       THEN Cardinality(token_seed \cap entry.tokens) ELSE 0)
    + (IF seed_sig # SigNone /\ entry.image_sig # SigNone /\ entry.image_sig = seed_sig
       THEN 200 ELSE 0)

\* _template_mark_usage
template_mark_usage(w, k) ==
    [w EXCEPT !.templates[k].hits = @ + 1]

\* _template_match: hit says whether an entry was found, key names it, w has
\* its usage marked
template_match(w, rule_name, seed_text, seed_sig) ==
    LET clean_seed  == clean_text(seed_text)
        prefix_seed == PrefixChars(clean_seed, 200)
        token_seed  == template_extract_tokens(clean_seed, 50)
        candidates  == template_collect_entries(w, rule_name)
        score(k)    == template_score(w.templates[k], prefix_seed, token_seed, seed_sig)
        good        == {k \in candidates : score(k) >= 5}
        best        == {k \in good : \A j \in good : score(j) <= score(k)}
    IN  IF (prefix_seed = <<>> /\ token_seed = {} /\ seed_sig = SigNone) \/ best = {}
        THEN [hit |-> FALSE, w |-> w, key |-> <<>>]
        ELSE LET k == CHOOSE x \in best : TRUE
             IN  [hit |-> TRUE, w |-> template_mark_usage(w, k), key |-> k]

\* _template_save
template_save(w, rule_name, entry, clean) ==
    IF rule_name = "" \/ clean = <<>> THEN w
    ELSE LET k    == <<rule_name, PrefixChars(clean, 400)>>
             hits == IF k \in DOMAIN w.templates /\ template_load_entry(w.templates[k])
                     THEN w.templates[k].hits ELSE 0
             payload == [file      |-> "object",
                         version   |-> TEMPLATE_CACHE_VERSION,
                         rule      |-> rule_name,
                         prefix    |-> PrefixChars(clean, 200),
                         tokens    |-> template_extract_tokens(clean, 60),
                         hits      |-> hits,
                         raw       |-> entry.raw,
                         clean     |-> entry.clean,
                         dpi       |-> entry.dpi,
                         avg_conf  |-> entry.avg_conf,
                         length    |-> entry.length,
                         image_sig |-> entry.image_sig]
         IN  [w EXCEPT !.templates = Put(@, k, payload)]

\* _maybe_save_template
maybe_save_template(w, rule_name, page_idx) ==
    LET clean == Get(w.TEXT_CACHE_CLEAN, page_idx, <<>>)
        raw   == Get(w.TEXT_CACHE_RAW, page_idx, <<>>)
        key   == <<page_idx, "full">>
        entry == [raw       |-> IF raw # <<>> THEN raw ELSE clean,
                  clean     |-> clean,
                  dpi       |-> Get(w.OCR_PAGE_DPI, key, 0),
                  avg_conf  |-> Get(w.OCR_PAGE_CONF, key, ConfNone),
                  length    |-> TextLen(clean),
                  image_sig |-> Get(w.OCR_PAGE_SIG, key, SigNone)]
    IN  IF rule_name = "" \/ clean = <<>> THEN w
        ELSE template_save(w, rule_name, entry, clean)

\* a template entry as the OCR result entry _apply_cached_result stores
AsOcrEntry(t) ==
    [raw |-> t.raw, clean |-> t.clean, dpi |-> t.dpi, avg_conf |-> t.avg_conf,
     length |-> t.length, scope |-> "full", image_sig |-> t.image_sig]

\* _page_signature(page_idx, "full"): the new globals and the signature
page_signature(w, page_idx) ==
    LET key == <<page_idx, "full">>
    IN  IF ~w.DOC THEN [w |-> w, sig |-> SigNone]
        ELSE IF Get(w.OCR_PAGE_SIG, key, SigNone) # SigNone
        THEN [w |-> w, sig |-> w.OCR_PAGE_SIG[key]]
        ELSE [w   |-> [w EXCEPT !.OCR_PAGE_SIG = Put(@, key, ImageSig(page_idx))],
              sig |-> ImageSig(page_idx)]

-----------------------------------------------------------------------------
(* Forced full-page OCR *)

FORCE_OCR_TEXT_THRESHOLD == 80

NoTemplate(w) == [hit |-> FALSE, w |-> w, key |-> <<>>]

\* the second lookup, by image signature: ps is what _page_signature returned
force_template_by_sig(ps, rule_name, seed) ==
    IF ps.sig # SigNone THEN template_match(ps.w, rule_name, seed, ps.sig)
    ELSE NoTemplate(ps.w)

\* the first lookup, by text: m1 is what _template_match returned
force_template_by_text(m1, w, page_idx, rule_name, seed) ==
    IF m1.hit THEN m1
    ELSE force_template_by_sig(page_signature(w, page_idx), rule_name, seed)

\* the template lookup of _force_full_page_ocr: by text, then by signature
force_template_lookup(w, page_idx, rule_name, seed_text) ==
    LET seed == IF seed_text # <<>> THEN seed_text
                ELSE IF Get(w.TEXT_CACHE_CLEAN, page_idx, <<>>) # <<>>
                THEN w.TEXT_CACHE_CLEAN[page_idx]
                ELSE Get(w.TEXT_CACHE_RAW, page_idx, <<>>)
    IN  force_template_by_text(template_match(w, rule_name, seed, SigNone),
                               w, page_idx, rule_name, seed)

\* a forced run that leaves the page unmarked
force_unmarked(w1, page_idx, rule_name) ==
    IF rule_name # "" /\ <<page_idx, "full">> \in DOMAIN w1.OCR_RESULT_CACHE
       /\ w1.OCR_RESULT_CACHE[<<page_idx, "full">>].clean # <<>>
    THEN template_save(w1, rule_name, w1.OCR_RESULT_CACHE[<<page_idx, "full">>],
                       w1.OCR_RESULT_CACHE[<<page_idx, "full">>].clean)
    ELSE w1

\* mark the page forced and, for a rule, store the fresh entry as a template
force_mark(w1, page_idx, rule_name) ==
    LET key   == <<page_idx, "full">>
        has   == key \in DOMAIN w1.OCR_RESULT_CACHE
        clean == IF has THEN w1.OCR_RESULT_CACHE[key].clean
                 ELSE Get(w1.TEXT_CACHE_CLEAN, page_idx, <<>>)
        w2    == [w1 EXCEPT !.FORCED_OCR_CACHE = @ \cup {key}]
    IN  IF rule_name # "" /\ has /\ clean # <<>>
        THEN template_save(w2, rule_name, w1.OCR_RESULT_CACHE[key], clean)
        ELSE w2

\* a template hit: w1 holds the template's text as the page's OCR result
force_template_apply(w1, page_idx) ==
    LET key == <<page_idx, "full">>
    IN  save_disk_cache([w1 EXCEPT !.FORCED_OCR_CACHE = @ \cup {key}],
                        page_idx, "full", w1.OCR_RESULT_CACHE[key])

\* _force_full_page_ocr once neither the forced set nor the disk cache
\* answered: tm is the outcome of the template lookup
force_run(tm, page_idx, rule_name) ==
    IF tm.hit
    THEN force_template_apply(
            apply_cached_result(tm.w, page_idx, "full", AsOcrEntry(tm.w.templates[tm.key])),
            page_idx)
    ELSE force_mark(ocr_page_region_into_cache(tm.w, page_idx, "full", 300),
                    page_idx, rule_name)

\* the page was forced before: re-apply its entry, refresh the template
force_again(w1, page_idx, rule_name, cached) ==
    LET clean == IF cached.clean # <<>> THEN cached.clean
                 ELSE Get(w1.TEXT_CACHE_CLEAN, page_idx, <<>>)
    IN  IF rule_name # "" /\ clean # <<>>
        THEN template_save(w1, rule_name, cached, clean) ELSE w1

\* _force_full_page_ocr
force_full_page_ocr(w, page_idx, force, rule_name, seed_text) ==
    LET key == <<page_idx, "full">>
    IN
    IF ~force /\ key \in w.FORCED_OCR_CACHE
    THEN IF key \in DOMAIN w.OCR_RESULT_CACHE
         THEN force_again(apply_cached_result(w, page_idx, "full", w.OCR_RESULT_CACHE[key]),
                          page_idx, rule_name, w.OCR_RESULT_CACHE[key])
         ELSE w
    ELSE IF key \notin DOMAIN w.OCR_RESULT_CACHE /\ HasDiskCache(w, page_idx, "full")
            /\ ~force
    THEN [apply_cached_result(w, page_idx, "full", load_disk_cache(w, page_idx, "full"))
            EXCEPT !.FORCED_OCR_CACHE = @ \cup {key}]
    ELSE force_run(IF ~force /\ rule_name # ""
                   THEN force_template_lookup(w, page_idx, rule_name, seed_text)
                   ELSE NoTemplate(w),
                   page_idx, rule_name)

\* _maybe_force_full_page_ocr: the new globals and whether OCR was attempted
maybe_force_full_page_ocr(w, page_idx, page_txt, allow_force, rule_name) ==
    IF ~allow_force \/ TextLen(page_txt) >= FORCE_OCR_TEXT_THRESHOLD
    THEN [w |-> w, ret |-> FALSE]
    ELSE [w |-> force_full_page_ocr(w, page_idx, FALSE, rule_name, page_txt),
          ret |-> TRUE]

-----------------------------------------------------------------------------
(* Output files.  A file name is its os.path.splitext parts; the binder's *)
(* output folder is absent or holds files, each with the pages copied    *)
(* into it.                                                               *)

FileName(base, ext) == [base |-> base, ext |-> ext]

NoFolder == [present |-> FALSE, files |-> EmptyMap]

\* datetime.now().strftime("%y")
YearNow == "26"

\* out_name.replace("YY", <year>)
ReplaceYY(name) ==
    IF name.base = "FormYY" THEN FileName("Form" \o YearNow, name.ext) ELSE name

\* str.lower on an extension
Lower(ext) == IF ext = ".PDF" THEN ".pdf" ELSE ext

\* ensure_pdf_ext
ensure_pdf_ext(name) ==
    IF Lower(name.ext) = ".pdf" THEN name
    ELSE FileName(name.base \o name.ext, ".pdf")

\* _tag_if_missed
tag_if_missed(filename, missed) ==
    IF ~missed THEN filename
    ELSE FileName(filename.base \o " - missed end cue", filename.ext)

\* f"{base} ({n}){ext}"
Numbered(filename, n) ==
    FileName(filename.base \o " (" \o ToString(n) \o ")", filename.ext)

RECURSIVE unique_from(_, _, _, _)

\* the while loop of unique_path
unique_from(f, filename, candidate, n) ==
    IF candidate \in DOMAIN f.files
    THEN unique_from(f, filename, Numbered(filename, n), n + 1)
    ELSE candidate

\* unique_path without the existence loop
unique_path_unchecked(f, filename) == filename

\* unique_path
unique_path(f, filename) == unique_from(f, filename, filename, 2)

\* ensure_split_folder
ensure_split_folder(f) == [f EXCEPT !.present = TRUE]

\* new_doc.save(out_path): the new folder and the path written
save_as(f, out_path, content) ==
    [folder |-> [f EXCEPT !.files = Put(@, out_path, content)], path |-> out_path]

\* the pages from_page..to_page, in order
PageSeq(from_page, to_page) ==
    [k \in 1..(to_page - from_page + 1) |-> from_page + k - 1]

\* save_range
save_range(f, start_idx, end_idx, out_name) ==
    save_as(ensure_split_folder(f),
            unique_path(f, ensure_pdf_ext(ReplaceYY(out_name))),
            PageSeq(start_idx, end_idx))

\* save_single
save_single(f, page_index, out_name) ==
    save_as(ensure_split_folder(f),
            unique_path(f, ensure_pdf_ext(ReplaceYY(out_name))),
            <<page_index>>)

\* a merge that puts the Location page last
save_dealer_location_last(f, start_idx, end_idx, location_idx, out_name) ==
    save_as(ensure_split_folder(f),
            unique_path(f, ensure_pdf_ext(ReplaceYY(out_name))),
            PageSeq(start_idx, end_idx) \o <<location_idx>>)

\* save_dealer_with_location
save_dealer_with_location(f, start_idx, end_idx, location_idx, out_name) ==
    save_as(ensure_split_folder(f),
            unique_path(f, ensure_pdf_ext(ReplaceYY(out_name))),
            PageSeq(start_idx, Min2(start_idx + 3, end_idx))
              \o <<location_idx>>
              \o PageSeq(Min2(start_idx + 3, end_idx) + 1, end_idx))

\* delete_paths_and_maybe_folder
delete_paths_and_maybe_folder(f, paths) ==
    LET kept == [q \in DOMAIN f.files \ paths |-> f.files[q]]
    IN  [present |-> f.present /\ DOMAIN kept # {}, files |-> kept]

-----------------------------------------------------------------------------
(* Text sessions *)

\* begin_text_session(pdf_path, allow_ocr)
\* begin_text_session without `if _DOC is not None: _DOC.close()`
begin_text_session_no_close(w, allow_ocr) ==
    World([FreshGlobals EXCEPT
              !.DOC              = TRUE,
              !.ALLOW_OCR        = allow_ocr,
              !.CACHE_BINDER_KEY = binder.key,
              !.CANCELLED        = w.CANCELLED,
              !.open_docs        = w.open_docs + 1,
              !.ocr_runs         = w.ocr_runs,
              !.native_reads     = w.native_reads],
          w.disk, w.templates)

\* begin_text_session: an open document is closed, the binder is opened,
\* every cache is cleared
begin_text_session(w, allow_ocr) ==
    World([FreshGlobals EXCEPT
              !.DOC              = TRUE,
              !.ALLOW_OCR        = allow_ocr,
              !.CACHE_BINDER_KEY = binder.key,
              !.CANCELLED        = w.CANCELLED,
              !.open_docs        = (IF w.DOC THEN w.open_docs - 1 ELSE w.open_docs) + 1,
              !.ocr_runs         = w.ocr_runs,
              !.native_reads     = w.native_reads],
          w.disk, w.templates)

\* end_text_session
end_text_session(w) ==
    World([FreshGlobals EXCEPT
              !.ALLOW_OCR        = w.ALLOW_OCR,
              !.open_docs        = IF w.DOC THEN w.open_docs - 1 ELSE w.open_docs,
              !.ocr_runs         = w.ocr_runs,
              !.native_reads     = w.native_reads],
          w.disk, w.templates)

\* set_cancelled(True)
set_cancelled(w) == [w EXCEPT !.CANCELLED = TRUE]

-----------------------------------------------------------------------------
(* Rules.  A rule is the dict load_rules returns; a key rules.json leaves  *)
(* out holds the value the code's .get() defaults to, and an absent        *)
(* pattern list is the empty list.  Rules carry no region hints.           *)

NoPats == <<>>

NoMax == 0          \* end.max_pages not set

NoFrac == -1        \* end.near_bottom_frac not set (else a percentage)

NoIndex == -1       \* output.preview_index not set

BaseRule(name, scope, filename) ==
    [name |-> name, scope |-> scope, priority |-> 0, cache_id |-> 0,
     require_any |-> NoPats, forbid_any |-> NoPats, helpful_cues |-> NoPats,
     min_helpful |-> 0,
     start |-> [any_cues |-> NoPats, next_page_hits |-> NoPats, min_hits_next |-> 1,
                fallback_cues |-> NoPats, fallback_to_previous |-> FALSE,
                lookback_header |-> FALSE, lookback_prev_forbid |-> NoPats],
     end |-> [mode |-> "cue", first_cue |-> NoPats, stop_before_new_start |-> FALSE,
              near_bottom_frac |-> NoFrac, max_pages |-> NoMax, fallback_to_end |-> TRUE],
     output |-> [filename |-> filename, prompt |-> FALSE,
                 preview_index |-> NoIndex, preview_offset |-> 0]]

\* the rules left in the order of rules.json
SortRules_file_order(rules) == rules

\* rules.sort(key=priority, reverse=True): a stable insertion of r
RECURSIVE InsertByPriority(_, _)
InsertByPriority(sorted, r) ==
    IF sorted = <<>> THEN <<r>>
    ELSE IF Head(sorted).priority >= r.priority
         THEN <<Head(sorted)>> \o InsertByPriority(Tail(sorted), r)
         ELSE <<r>> \o sorted

RECURSIVE SortRules(_)
SortRules(rules) ==
    IF rules = <<>> THEN <<>>
    ELSE InsertByPriority(SortRules(SubSeq(rules, 1, Len(rules) - 1)), rules[Len(rules)])

\* a pattern re.compile rejects
BadPattern == "("

\* _compile_list over every pattern list of a rule
Compiles(r) ==
    \A pats \in {r.require_any, r.helpful_cues, r.forbid_any, r.start.any_cues,
                  r.start.next_page_hits, r.start.fallback_cues,
                  r.start.lookback_prev_forbid, r.end.first_cue} :
        \A k \in DOMAIN pats : pats[k] # BadPattern

\* load_rules: sorted by descending priority, _cache_id the position
load_rules(rules) ==
    LET sorted == SortRules(rules)
    IN  [k \in 1..Len(sorted) |-> [sorted[k] EXCEPT !.cache_id = k - 1]]

FORCE_OCR_RULES ==
    {"SSA IL", "SSA WI", "Named Driver Exclusion", "Named Driver Exclusion WS"}

FORCE_OCR_RANGE_RULES == {"Non-Listed Driver Limitation"}

\* _pattern_hits: the count returned.  st.cleaned is the caller's list of
\* clean page texts.
pattern_hits(st, rule, target, patterns, page_idx) ==
    IF patterns = NoPats THEN 0
    ELSE IF <<rule.cache_id, target, page_idx>> \in DOMAIN st.w.PATTERN_HIT_CACHE
    THEN st.w.PATTERN_HIT_CACHE[<<rule.cache_id, target, page_idx>>]
    ELSE Hits(st.cleaned[page_idx + 1], patterns)

\* _pattern_hits: the state it leaves, with the count cached
pattern_hits_cached(st, rule, target, patterns, page_idx) ==
    LET key == <<rule.cache_id, target, page_idx>>
    IN  IF patterns = NoPats \/ key \in DOMAIN st.w.PATTERN_HIT_CACHE THEN st
        ELSE [st EXCEPT
               !.w.PATTERN_HIT_CACHE = Put(@, key, Hits(st.cleaned[page_idx + 1], patterns)),
               !.w.PATTERN_CACHE_BY_PAGE =
                   Put(@, page_idx, Get(@, page_idx, {}) \cup {key \o <<"hit">>})]

NoPattern == ""

\* the first pattern of the list that matches the text, if any
RECURSIVE FirstMatching(_, _)
FirstMatching(patterns, text) ==
    IF patterns = <<>> THEN NoPattern
    ELSE IF Search(Head(patterns), text) THEN Head(patterns)
    ELSE FirstMatching(Tail(patterns), text)

\* _pattern_first_match: the pattern returned
pattern_first_match(st, rule, target, patterns, page_idx) ==
    IF patterns = NoPats THEN NoPattern
    ELSE IF <<rule.cache_id, target, page_idx>> \in DOMAIN st.w.PATTERN_FIRST_CACHE
    THEN st.w.PATTERN_FIRST_CACHE[<<rule.cache_id, target, page_idx>>]
    ELSE FirstMatching(patterns, st.cleaned[page_idx + 1])

\* _pattern_first_match: the state it leaves
pattern_first_match_cached(st, rule, target, patterns, page_idx) ==
    LET key == <<rule.cache_id, target, page_idx>>
    IN  IF patterns = NoPats \/ key \in DOMAIN st.w.PATTERN_FIRST_CACHE THEN st
        ELSE [st EXCEPT
               !.w.PATTERN_FIRST_CACHE =
                   Put(@, key, FirstMatching(patterns, st.cleaned[page_idx + 1])),
               !.w.PATTERN_CACHE_BY_PAGE =
                   Put(@, page_idx, Get(@, page_idx, {}) \cup {key \o <<"first">>})]

\* the locals of one gate evaluation: the globals, the caller's cleaned list,
\* the gate's copy of the page text and of the previous page's text, whether
\* the last forced-OCR attempt ran, the verdict so far, require_from_prev
GateState(w, cleaned, page_idx) ==
    [w |-> w, cleaned |-> cleaned, txt |-> cleaned[page_idx + 1],
     prev |-> IF page_idx > 0 THEN cleaned[page_idx] ELSE <<>>,
     forced |-> FALSE, res |-> "go", from_prev |-> FALSE]

\* cleaned_text = _page_cleaned(...); cleaned_texts[page_idx] = cleaned_text
reread_page(r, st, page_idx, is_prev) ==
    [st EXCEPT !.w = r.w,
               !.cleaned[page_idx + 1] = r.ret,
               !.txt = IF is_prev THEN @ ELSE r.ret,
               !.prev = IF is_prev THEN r.ret ELSE @,
               !.forced = TRUE]

\* if _maybe_force_full_page_ocr(page, ..., text, True, rule_name): re-read
force_retry(st, page_idx, page_txt, rule_name, is_prev) ==
    IF TextLen(page_txt) >= FORCE_OCR_TEXT_THRESHOLD THEN [st EXCEPT !.forced = FALSE]
    ELSE reread_page(
            page_cleaned(force_full_page_ocr(st.w, page_idx, FALSE, rule_name, page_txt),
                         page_idx),
            st, page_idx, is_prev)

\* the verdict of a cue gate after its retry: hits0 is the count before it
cue_gate_check(st1, rule, target, patterns, need, page_idx, hits0) ==
    IF (IF st1.forced THEN pattern_hits(st1, rule, target, patterns, page_idx) ELSE hits0)
         < need
    THEN [pattern_hits_cached(st1, rule, target, patterns, page_idx) EXCEPT !.res = "no"]
    ELSE pattern_hits_cached(st1, rule, target, patterns, page_idx)

\* a gate of the form: count the hits; if too few and the rule is one that
\* forces OCR, force OCR and count again; if still too few, no match
cue_gate(st, rule, target, patterns, need, page_idx, force_rules) ==
    IF st.res # "go" \/ patterns = NoPats THEN st
    ELSE cue_gate_check(
            IF pattern_hits(st, rule, target, patterns, page_idx) < need
               /\ rule.name \in force_rules
            THEN force_retry(pattern_hits_cached(st, rule, target, patterns, page_idx),
                             page_idx, st.txt, rule.name, FALSE)
            ELSE [pattern_hits_cached(st, rule, target, patterns, page_idx)
                    EXCEPT !.forced = FALSE],
            rule, target, patterns, need, page_idx,
            pattern_hits(st, rule, target, patterns, page_idx))

\* if "forbid_any" in rule and _pattern_hits(...) > 0: return False
forbid_gate(st, rule, page_idx) ==
    IF st.res # "go" \/ rule.forbid_any = NoPats THEN st
    ELSE IF pattern_hits(st, rule, "forbid_any", rule.forbid_any, page_idx) > 0
    THEN [pattern_hits_cached(st, rule, "forbid_any", rule.forbid_any, page_idx)
            EXCEPT !.res = "no"]
    ELSE pattern_hits_cached(st, rule, "forbid_any", rule.forbid_any, page_idx)

\* the end of match_single_page_rule: _maybe_save_template and return True
single_matched(st, rule, page_idx) ==
    IF st.res # "go" THEN st
    ELSE [st EXCEPT !.w = maybe_save_template(st.w, rule.name, page_idx), !.res = "yes"]

\* match_single_page_rule: the new globals, the cleaned list and the verdict
match_single_page_rule(w, cleaned, page_idx, rule) ==
    single_matched(
        cue_gate(
            cue_gate(
                forbid_gate(
                    cue_gate(GateState(w, cleaned, page_idx), rule, "start.any_cues",
                             rule.start.any_cues, 1, page_idx, FORCE_OCR_RULES),
                    rule, page_idx),
                rule, "require_any", rule.require_any, 1, page_idx, FORCE_OCR_RULES),
            rule, "helpful_cues", rule.helpful_cues, rule.min_helpful, page_idx,
            FORCE_OCR_RULES),
        rule, page_idx)

\* the start of match_range_start: _RANGE_LOOKBACK_HINTS.pop((rule_name, i))
range_gate_state(w, cleaned, i, rule) ==
    GateState([w EXCEPT !.RANGE_LOOKBACK_HINTS = @ \ {<<rule.name, i>>}], cleaned, i)

\* require_any taken from the previous page without leaving the hint
require_from_previous_unhinted(st3, rule, i) ==
    IF pattern_hits(st3, rule, "require_any", rule.require_any, i - 1) > 0
    THEN [pattern_hits_cached(st3, rule, "require_any", rule.require_any, i - 1)
            EXCEPT !.from_prev = TRUE]
    ELSE [pattern_hits_cached(st3, rule, "require_any", rule.require_any, i - 1)
            EXCEPT !.res = "no"]

\* require_any is looked for on the previous page: st3 is the state after
\* the forced-OCR attempt on that page
require_from_previous(st3, rule, i) ==
    IF pattern_hits(st3, rule, "require_any", rule.require_any, i - 1) > 0
    THEN [pattern_hits_cached(st3, rule, "require_any", rule.require_any, i - 1)
            EXCEPT !.w.RANGE_LOOKBACK_HINTS = @ \cup {<<rule.name, i>>},
                   !.from_prev = TRUE]
    ELSE [pattern_hits_cached(st3, rule, "require_any", rule.require_any, i - 1)
            EXCEPT !.res = "no"]

\* require_any did not match page i: st1 is the state after the forced-OCR
\* attempt on page i
require_missing(st1, rule, i) ==
    LET req_hits == IF st1.forced
                    THEN pattern_hits(st1, rule, "require_any", rule.require_any, i)
                    ELSE 0
        st2 == IF st1.forced
               THEN pattern_hits_cached(st1, rule, "require_any", rule.require_any, i)
               ELSE st1
    IN  IF req_hits # 0 THEN st2
        ELSE IF /\ rule.start.fallback_to_previous
                /\ rule.start.fallback_cues # NoPats
                /\ Hits(st1.txt, rule.start.fallback_cues) > 0
                /\ i > 0
        THEN require_from_previous(
                IF rule.name \in FORCE_OCR_RANGE_RULES
                THEN force_retry(st2, i - 1, st2.cleaned[i], rule.name, TRUE)
                ELSE [st2 EXCEPT !.prev = st2.cleaned[i]],
                rule, i)
        ELSE [st2 EXCEPT !.res = "no"]

\* the require_any gate of match_range_start
range_require_gate(st, rule, i) ==
    IF st.res # "go" \/ rule.require_any = NoPats THEN st
    ELSE IF pattern_hits(st, rule, "require_any", rule.require_any, i) # 0
    THEN pattern_hits_cached(st, rule, "require_any", rule.require_any, i)
    ELSE require_missing(
            IF rule.name \in FORCE_OCR_RANGE_RULES
            THEN force_retry(pattern_hits_cached(st, rule, "require_any", rule.require_any, i),
                             i, st.txt, rule.name, FALSE)
            ELSE [pattern_hits_cached(st, rule, "require_any", rule.require_any, i)
                    EXCEPT !.forced = FALSE],
            rule, i)

\* helpful_cues are counted on the previous page: st3 is the state after the
\* forced-OCR attempt on that page, helpful_hits the count on page i
helpful_from_previous(st3, rule, i, helpful_hits) ==
    LET prev_hits == pattern_hits(st3, rule, "helpful_cues", rule.helpful_cues, i - 1)
        st4 == pattern_hits_cached(st3, rule, "helpful_cues", rule.helpful_cues, i - 1)
    IN  IF (IF prev_hits >= rule.min_helpful THEN prev_hits ELSE helpful_hits)
             < rule.min_helpful
        THEN [st4 EXCEPT !.res = "no"] ELSE st4

\* too few helpful_cues on page i: st1 is the state after the forced-OCR
\* attempt on page i, hits0 the count before it
helpful_low(st1, rule, i, hits0) ==
    LET helpful_hits == IF st1.forced
                        THEN pattern_hits(st1, rule, "helpful_cues", rule.helpful_cues, i)
                        ELSE hits0
        st2 == IF st1.forced
               THEN pattern_hits_cached(st1, rule, "helpful_cues", rule.helpful_cues, i)
               ELSE st1
    IN  IF helpful_hits < rule.min_helpful /\ st1.from_prev /\ i > 0
        THEN helpful_from_previous(
                IF rule.name \in FORCE_OCR_RANGE_RULES
                THEN force_retry(st2, i - 1, st2.cleaned[i], rule.name, TRUE)
                ELSE [st2 EXCEPT !.prev = st2.cleaned[i]],
                rule, i, helpful_hits)
        ELSE IF helpful_hits < rule.min_helpful THEN [st2 EXCEPT !.res = "no"]
        ELSE st2

\* the helpful_cues gate of match_range_start
range_helpful_gate(st, rule, i) ==
    IF st.res # "go" \/ rule.helpful_cues = NoPats THEN st
    ELSE IF pattern_hits(st, rule, "helpful_cues", rule.helpful_cues, i) >= rule.min_helpful
    THEN pattern_hits_cached(st, rule, "helpful_cues", rule.helpful_cues, i)
    ELSE helpful_low(
            IF rule.name \in FORCE_OCR_RANGE_RULES
            THEN force_retry(pattern_hits_cached(st, rule, "helpful_cues", rule.helpful_cues, i),
                             i, st.txt, rule.name, FALSE)
            ELSE [pattern_hits_cached(st, rule, "helpful_cues", rule.helpful_cues, i)
                    EXCEPT !.forced = FALSE],
            rule, i,
            pattern_hits(st, rule, "helpful_cues", rule.helpful_cues, i))

\* the lookahead gate and the verdict of match_range_start
range_next_page_gate(st, rule, i) ==
    IF st.res # "go" THEN st
    ELSE IF /\ rule.start.next_page_hits # NoPats
            /\ i + 1 < Len(st.cleaned)
            /\ Hits(st.cleaned[i + 2], rule.start.next_page_hits) < rule.start.min_hits_next
    THEN [st EXCEPT !.res = "no"]
    ELSE [st EXCEPT !.res = "yes"]

\* match_range_start: the new globals, the cleaned list and the verdict
match_range_start(w, cleaned, i, rule) ==
    range_next_page_gate(
        cue_gate(
            range_helpful_gate(
                range_require_gate(
                    forbid_gate(range_gate_state(w, cleaned, i, rule), rule, i),
                    rule, i),
                rule, i),
            rule, "start.any_cues", rule.start.any_cues, 1, i, FORCE_OCR_RANGE_RULES),
        rule, i)

\* signature_end_index: <<end index, hit_ok>>
signature_end_index(cleaned, start_idx) ==
    LET n == Len(cleaned)
        LastWith(toks) ==
            {j \in start_idx..(n - 1) : \E t \in toks : Search(t, cleaned[j + 1])}
        Last(js) == CHOOSE j \in js : \A k \in js : k <= j
    IN  IF Search("DOCUMENT COMPLETION CERTIFICATE", cleaned[start_idx + 1])
        THEN IF LastWith({"DOCUMENT HISTORY"}) # {}
             THEN <<Last(LastWith({"DOCUMENT HISTORY"})), TRUE>>
             ELSE <<n - 1, FALSE>>
        ELSE IF Search("DEALER POLICY BIND PACKAGE", cleaned[start_idx + 1])
        THEN IF LastWith({"AGREEMENT COMPLETED", "ADOBE ACROBAT SIGN"}) # {}
             THEN <<Last(LastWith({"AGREEMENT COMPLETED", "ADOBE ACROBAT SIGN"})), TRUE>>
             ELSE <<n - 1, FALSE>>
        ELSE <<n - 1, FALSE>>

\* _PREBATCH_RULES: rule name -> <<span, lookback>>
PREBATCH_RULES ==
    [r \in {"Dealer Application", "Non-Listed Driver Limitation", "Named Driver Exclusion"}
        |-> CASE r = "Dealer Application"           -> <<8, 0>>
              [] r = "Non-Listed Driver Limitation" -> <<4, 1>>
              [] OTHER                              -> <<2, 0>>]

\* cleaned_texts[j] = _page_cleaned(pdf_path, j)
set_cleaned(r, st, j) == [st EXCEPT !.w = r.w, !.cleaned[j + 1] = r.ret]

RECURSIVE prebatch_loop(_, _, _, _)

\* the for loop of _prebatch_rule_pages from page j on
prebatch_loop(st, rule_name, j, end_page) ==
    IF j >= end_page \/ st.w.CANCELLED THEN st
    ELSE prebatch_loop(
            IF TextLen(st.cleaned[j + 1]) >= FORCE_OCR_TEXT_THRESHOLD
               \/ <<j, "full">> \in st.w.FORCED_OCR_CACHE
            THEN st
            ELSE set_cleaned(
                    page_cleaned(
                        force_full_page_ocr(st.w, j, FALSE, rule_name, st.cleaned[j + 1]),
                        j),
                    st, j),
            rule_name, j + 1, end_page)

\* _prebatch_rule_pages
prebatch_rule_pages(st, rule_name, start_idx) ==
    IF ~st.w.DOC \/ rule_name \notin DOMAIN PREBATCH_RULES THEN st
    ELSE prebatch_loop(st, rule_name,
                       Max2(0, start_idx - PREBATCH_RULES[rule_name][2]),
                       Min2(start_idx + PREBATCH_RULES[rule_name][1], Len(st.cleaned)))

\* if rule_name: _maybe_save_template(rule_name, idx)
save_template_of(st, rule_name, idx) ==
    IF rule_name = "" THEN st
    ELSE [st EXCEPT !.w = maybe_save_template(st.w, rule_name, idx)]

\* what find_range_end returns, with the state it leaves
EndResult(st, end_idx, hit_ok, matched_pattern) ==
    [st EXCEPT !.end = end_idx, !.hit_ok = hit_ok, !.pat = matched_pattern]

\* the fallbacks of find_range_end
end_fallback(st, start_idx, rule, scan_limit) ==
    IF rule.end.fallback_to_end THEN EndResult(st, scan_limit, FALSE, NoPattern)
    ELSE EndResult(st, start_idx, FALSE, NoPattern)

\* m.start() of the first match of the pattern in the text
MatchPos(p, text) ==
    LET k == CHOOSE k \in 1..Len(text) : text[k] = p /\ \A m \in 1..(k - 1) : text[m] # p
    IN  IF k = 1 THEN 0 ELSE TextLen(SubSeq(text, 1, k - 1)) + 1

\* the near_bottom_frac test: the match starts in the last part of the page
NearBottom(p, text, frac) ==
    MatchPos(p, text) >= (TextLen(text) * (100 - Max2(0, Min2(99, frac)))) \div 100

EndKeywords ==
    {"BROKER", "SIGNATURE", "COMPLETION", "INDICATE", "INTERESTS", "APPLICANT", "CONSENT"}

\* needs_ocr of find_range_end for a page of the end scan
end_needs_ocr(txt, first_cue) ==
    \/ TextLen(txt) < 500 /\ Hits(txt, first_cue) = 0
    \/ /\ TextLen(txt) > 200 /\ TextLen(txt) < 2000
       /\ Hits(txt, first_cue) = 0
       /\ Search("1/02/2024", txt)
       /\ \E t \in {"PM", "AM", "UTC"} : Search(t, txt)
       /\ ~\E kw \in EndKeywords : Search(kw, txt)

\* step 2 of the end scan: OCR a candidate end page that shows no end cue
end_ocr_assist(st, j, rule, start_idx) ==
    LET is_dealer_app == rule.name = "Dealer Application"
        txt == st.cleaned[j + 1]
        should_check_ocr ==
            /\ rule.end.first_cue # NoPats
            /\ (is_dealer_app \/ st.w.ALLOW_OCR)
            /\ (is_dealer_app \/ j >= start_idx + 4)
    IN  IF ~(should_check_ocr /\ end_needs_ocr(txt, rule.end.first_cue)) THEN st
        ELSE set_cleaned(
                page_cleaned(
                    IF is_dealer_app /\ TextLen(txt) < 500
                    THEN IF <<j, "full">> \in st.w.FORCED_OCR_CACHE THEN st.w
                         ELSE force_full_page_ocr(st.w, j, FALSE, rule.name, txt)
                    ELSE ocr_page_region_into_cache(st.w, j, "bottom_strip", 300),
                    j),
                st, j)

RECURSIVE end_scan(_, _, _, _, _, _)

\* step 3 of the end scan: the end cue on page j, else on to the next page
end_cue_check(st1, j, rule, start_idx, scan_limit, other_start_pats) ==
    LET first_cue == rule.end.first_cue
        pat == pattern_first_match(st1, rule, "end.first_cue", first_cue, j)
        hit == /\ pat # NoPattern
               /\ \/ rule.end.near_bottom_frac = NoFrac
                  \/ NearBottom(pat, st1.cleaned[j + 1], rule.end.near_bottom_frac)
    IN  IF hit
        THEN EndResult(pattern_first_match_cached(st1, rule, "end.first_cue", first_cue, j),
                       j, TRUE, pat)
        ELSE end_scan(pattern_first_match_cached(st1, rule, "end.first_cue", first_cue, j),
                      j + 1, rule, start_idx, scan_limit, other_start_pats)

\* the for loop of find_range_end from page j on
end_scan(st, j, rule, start_idx, scan_limit, other_start_pats) ==
    IF j > scan_limit \/ st.w.CANCELLED THEN end_fallback(st, start_idx, rule, scan_limit)
    ELSE IF /\ rule.end.stop_before_new_start
            /\ other_start_pats # <<>>
            /\ Hits(st.cleaned[j + 1], other_start_pats) > 0
    THEN EndResult(st, j - 1, TRUE, NoPattern)
    ELSE end_cue_check(end_ocr_assist(st, j, rule, start_idx),
                       j, rule, start_idx, scan_limit, other_start_pats)

\* end.mode next_table_page
next_table_page(st, start_idx) ==
    LET n == Len(st.cleaned)
        j == start_idx + 1
        later == {k \in (j + 1)..Min2(start_idx + 2, n - 1) : looks_like_table(st.w, k)}
    IN  IF j < n /\ looks_like_table(st.w, j) THEN EndResult(st, j, TRUE, NoPattern)
        ELSE IF ~st.w.CANCELLED /\ later # {}
        THEN EndResult(st, CHOOSE k \in later : \A m \in later : k <= m, TRUE, NoPattern)
        ELSE IF start_idx + 1 < n THEN EndResult(st, start_idx + 1, TRUE, NoPattern)
        ELSE EndResult(st, n - 1, FALSE, NoPattern)

\* the scan window without the max_pages cap
ScanLimit_uncapped(n, start_idx, max_pages) == n - 1

\* the scan window of the default mode
ScanLimit(n, start_idx, max_pages) ==
    IF max_pages > 0 THEN Min2(n - 1, start_idx + max_pages - 1) ELSE n - 1

\* the start cues of the other range rules
OtherStartPats(rule, all_range_start_pats) ==
    IF rule.end.stop_before_new_start
    THEN SelectSeq(all_range_start_pats,
                   LAMBDA q : \A k \in 1..Len(rule.start.any_cues) : rule.start.any_cues[k] # q)
    ELSE <<>>

\* find_range_end
find_range_end(st, start_idx, rule, all_range_start_pats) ==
    IF rule.end.mode = "signature_rules"
    THEN EndResult(st, signature_end_index(st.cleaned, start_idx)[1],
                   signature_end_index(st.cleaned, start_idx)[2], NoPattern)
    ELSE IF rule.end.mode = "next_table_page" THEN next_table_page(st, start_idx)
    ELSE IF start_idx + 1 > ScanLimit(Len(st.cleaned), start_idx, rule.end.max_pages)
    THEN end_fallback(st, start_idx, rule,
                      ScanLimit(Len(st.cleaned), start_idx, rule.end.max_pages))
    ELSE end_scan(save_template_of(prebatch_rule_pages(st, rule.name, start_idx),
                                   rule.name, start_idx),
                  start_idx + 1, rule, start_idx,
                  ScanLimit(Len(st.cleaned), start_idx, rule.end.max_pages),
                  OtherStartPats(rule, all_range_start_pats))

\* _collect_all_range_start_pats
RECURSIVE collect_all_range_start_pats(_)
collect_all_range_start_pats(rules) ==
    IF rules = <<>> THEN <<>>
    ELSE (IF Head(rules).scope = "range" THEN Head(rules).start.any_cues ELSE <<>>)
         \o collect_all_range_start_pats(Tail(rules))

-----------------------------------------------------------------------------
(* The scan profile and the prologue of apply_rules_collect *)

\* the elements of a set of page indices in ascending order
RECURSIVE Ascending(_)
Ascending(ps) ==
    IF ps = {} THEN <<>>
    ELSE LET lo == CHOOSE x \in ps : \A y \in ps : x <= y
         IN  <<lo>> \o Ascending(ps \ {lo})

\* assess_binder_scan_profile for a binder of at most sample_limit pages:
\* every page is sampled
assess_binder_scan_profile ==
    LET sample_count == NumPages
        Len0(i)   == TextLen(NativeText(i))
        low_text  == Cardinality({i \in Pages : Len0(i) < 80})
        med_text  == Cardinality({i \in Pages : Len0(i) < 250})
        high_text == Cardinality({i \in Pages : Len0(i) > 600})
        allow_ocr == \/ 10 * med_text > 4 * sample_count
                     \/ high_text < Max2(1, (6 * sample_count) \div 10)
        skip      == \/ 100 * low_text >= 22 * sample_count
                     \/ 10 * med_text >= 5 * sample_count
                     \/ /\ high_text <= Max2(1, sample_count \div 4)
                        /\ 10 * med_text >= 4 * sample_count
    IN  [allow_ocr |-> allow_ocr, skip_quick |-> allow_ocr /\ skip]

\* _suspect_pages
suspect_pages(w) ==
    IF ~w.DOC THEN <<>>
    ELSE Ascending({i \in Pages : TextLen(NativeText(i)) < 100})

\* for i in _suspect_pages(): [if _CANCELLED: break]; _page_cleaned(path, i)
RECURSIVE warm_pages(_, _, _)
warm_pages(w, ps, check_cancel) ==
    IF ps = <<>> \/ (check_cancel /\ w.CANCELLED) THEN w
    ELSE warm_pages(page_cleaned(w, Head(ps)).w, Tail(ps), check_cancel)

NoLimit == 0        \* max_pages=None

\* the for loop of _opportunistic_ocr_suspects
RECURSIVE opportunistic_loop(_, _, _, _, _)
opportunistic_loop(w, ps, done, max_pages, force_full) ==
    IF ps = <<>> \/ w.CANCELLED \/ (max_pages # NoLimit /\ done >= max_pages) THEN w
    ELSE opportunistic_loop(
            IF TextLen(Get(w.TEXT_CACHE_RAW, Head(ps), <<>>)) >= 10 THEN w
            ELSE IF force_full THEN force_full_page_ocr(w, Head(ps), FALSE, "", <<>>)
            ELSE ocr_page_region_into_cache(w, Head(ps), "full", DpiNone),
            Tail(ps),
            IF TextLen(Get(w.TEXT_CACHE_RAW, Head(ps), <<>>)) >= 10 THEN done ELSE done + 1,
            max_pages, force_full)

\* _opportunistic_ocr_suspects
opportunistic_ocr_suspects(w, max_pages, force_full) ==
    opportunistic_loop(w, suspect_pages(w), 0, max_pages, force_full)

\* cleaned = [_page_cleaned(pdf_path, i) for i in range(n)], from page i on
RECURSIVE collect_cleaned(_, _)
collect_cleaned(st, i) ==
    IF i >= NumPages THEN st
    ELSE collect_cleaned(set_cleaned(page_cleaned(st.w, i), st, i), i + 1)

\* _detect_nav_sav_junk: the ignored pages
detect_nav_sav_junk(cleaned) ==
    IF cleaned = <<>> THEN {}
    ELSE IF Search("NAV SAV", cleaned[1]) /\ Search("COMMERCIAL INSURANCE PROPOSAL", cleaned[1])
    THEN (0..(Min2(20, Len(cleaned)) - 1))
         \cup (IF Len(cleaned) > 20 /\ Search("BROKER FEE AGREEMENT", cleaned[21])
               THEN {20} ELSE {})
    ELSE {}

-----------------------------------------------------------------------------
(* apply_rules_collect.  cs holds the locals of process_pdf and of         *)
(* apply_rules_collect together with the globals (cs.w) and the output     *)
(* folder (cs.folder).                                                     *)

Unbound == "<unbound>"      \* the local rule_name before its first assignment

\* the record of one match, kept for stating properties: the rule, the page
\* whose gate passed and what the gate saw, the range and where it went, the
\* page texts as they were when the match was made
Match(cs, rule, kind, how, name, path) ==
    [rule |-> rule, kind |-> kind, how |-> how, at |-> cs.i, gate |-> cs.gate,
     hint_used |-> cs.hint_used,
     start |-> cs.start, end |-> cs.end, hit_ok |-> cs.hit_ok,
     name |-> name, path |-> path, pass |-> cs.pass, cleaned |-> cs.cleaned]

\* what a gate that passed saw of page i and of the page before it
GateSaw(m, i) ==
    [text |-> m.cleaned[i + 1], prev |-> IF i > 0 THEN m.cleaned[i] ELSE <<>>,
     from_prev |-> m.from_prev]

NoGate == [text |-> <<>>, prev |-> <<>>, from_prev |-> FALSE]

NoPath == FileName("", "")

\* the paths of a list, as delete_paths_and_maybe_folder walks them
PathSet(paths) == {paths[k] : k \in DOMAIN paths}

\* a save that is written and listed but not counted
file_saved_uncounted(r, cs) ==
    [cs EXCEPT !.folder = r.folder,
               !.session_paths = Append(@, r.path),
               !.written = @ \cup {r.path}]

\* saved_path = save_...(...); session_paths.append(saved_path); auto_saved += 1
file_saved(r, cs) ==
    [cs EXCEPT !.folder = r.folder,
               !.session_paths = Append(@, r.path),
               !.written = @ \cup {r.path},
               !.auto_saved = @ + 1]

\* a range match that is saved at once
range_saved(cs1, rule, out_name) ==
    [cs1 EXCEPT !.taken = @ \cup (cs1.start..cs1.end),
                !.matches = Append(@, Match(cs1, rule, "range", "saved", out_name,
                                            cs1.session_paths[Len(cs1.session_paths)])),
                !.i = cs1.end + 1]

\* preview_page of a range prompt item
PreviewPage(rule, start, end_idx) ==
    IF rule.output.preview_index # NoIndex
    THEN Max2(start, Min2(end_idx, start + Max2(0, rule.output.preview_index)))
    ELSE Max2(start, Min2(end_idx, start + Max2(0, rule.output.preview_offset)))

\* lines 2209-2259: what becomes of a range match once its end is known
range_dispatch(er, rule) ==
    LET out_name     == tag_if_missed(rule.output.filename, ~er.hit_ok)
        needs_prompt == rule.output.prompt
        cs0          == [er EXCEPT !.rule_name = rule.name]
    IN  IF rule.name = "Dealer Application" /\ ~needs_prompt
        THEN [cs0 EXCEPT
               !.dealer_matches = Append(@, [start |-> er.start, end |-> er.end,
                                            prefix |-> out_name, hit_ok |-> er.hit_ok]),
               !.taken = @ \cup (er.start..er.end),
               !.matches = Append(@, Match(er, rule, "range", "dealer", out_name, NoPath)),
               !.i = er.end + 1]
        ELSE IF needs_prompt
        THEN [cs0 EXCEPT
               !.prompt_items = Append(@, [kind |-> "range", start |-> er.start,
                                          end |-> er.end,
                                          preview_page |-> PreviewPage(rule, er.start, er.end),
                                          prefix |-> out_name]),
               !.taken = @ \cup (er.start..er.end),
               !.matches = Append(@, Match(er, rule, "range", "prompt", out_name, NoPath)),
               !.i = er.end + 1]
        ELSE range_saved(file_saved(save_range(er.folder, er.start, er.end, out_name), cs0),
                         rule, out_name)

\* lines 2164-2175 and on: prebatch, template, end detection, dispatch
range_tail(cs2, rule) ==
    IF cs2.crashed THEN cs2
    ELSE range_dispatch(
            find_range_end(
                save_template_of(
                    IF rule.name \in DOMAIN PREBATCH_RULES
                    THEN prebatch_rule_pages([cs2 EXCEPT !.rule_name = rule.name],
                                             rule.name, cs2.start)
                    ELSE [cs2 EXCEPT !.rule_name = rule.name],
                    rule.name, cs2.start),
                cs2.start, rule, cs2.all_pats),
            rule)

\* _force_full_page_ocr(start - 1, ..., rule_name=rule_name, ...) of the
\* lookback-header path, then the re-read of the previous page; reading the
\* local rule_name before its first assignment raises UnboundLocalError
lookback_force(cs, rule) ==
    IF cs.rule_name = Unbound THEN [cs EXCEPT !.crashed = TRUE]
    ELSE set_cleaned(
            page_cleaned(
                force_full_page_ocr(cs.w, cs.start - 1, FALSE, cs.rule_name,
                                    cs.cleaned[cs.start]),
                cs.start - 1),
            cs, cs.start - 1)

\* lines 2160-2161: back the start up when the previous page carries the header
lookback_decide(cs2, rule, prev_hits, fallback_tried) ==
    LET prev_text == cs2.cleaned[cs2.start]
        forbidden == /\ rule.start.lookback_prev_forbid # NoPats
                     /\ Hits(prev_text, rule.start.lookback_prev_forbid) > 0
        fallback_prev_hits ==
            IF fallback_tried /\ ~forbidden
            THEN Hits(prev_text, rule.start.fallback_cues) ELSE 0
    IN  IF cs2.crashed THEN cs2
        ELSE IF prev_hits > 0 \/ fallback_prev_hits > 0
        THEN [cs2 EXCEPT !.start = @ - 1]
        ELSE cs2

\* lines 2143-2158: the previous page is tried for the fallback cues
lookback_fallback(cs1, rule) ==
    LET prev_text == cs1.cleaned[cs1.start]
        any_hits  == Hits(prev_text, rule.start.any_cues)
        prev_hits == IF /\ rule.start.lookback_prev_forbid # NoPats
                        /\ Hits(prev_text, rule.start.lookback_prev_forbid) > 0
                     THEN 0 ELSE any_hits
        tried     == /\ prev_hits = 0
                     /\ rule.start.fallback_to_previous
                     /\ rule.start.fallback_cues # NoPats
                     /\ Hits(cs1.cleaned[cs1.start + 1], rule.start.fallback_cues) > 0
    IN  IF cs1.crashed THEN cs1
        ELSE lookback_decide(
                IF /\ tried
                   /\ Hits(prev_text, rule.start.fallback_cues) = 0
                   /\ rule.name \in FORCE_OCR_RANGE_RULES
                THEN lookback_force(cs1, rule)
                ELSE cs1,
                rule, prev_hits, tried)

\* lines 2128-2141: the lookback-header backup of the start
lookback_header(cs, rule) ==
    IF cs.hint_used \/ ~rule.start.lookback_header \/ cs.start = 0 THEN cs
    ELSE lookback_fallback(
            IF /\ Hits(cs.cleaned[cs.start], rule.start.any_cues) = 0
               /\ rule.name \in FORCE_OCR_RANGE_RULES
            THEN lookback_force(cs, rule)
            ELSE cs,
            rule)

\* lines 2119-2127: the start gate of page cs.i and the hint it may leave
range_after_gate(m, cs, rule) ==
    IF m.res # "yes"
    THEN [cs EXCEPT !.w = m.w, !.cleaned = m.cleaned, !.i = @ + 1]
    ELSE range_tail(
            lookback_header(
                [cs EXCEPT
                  !.w = [m.w EXCEPT !.RANGE_LOOKBACK_HINTS = @ \ {<<rule.name, cs.i>>}],
                  !.cleaned = m.cleaned,
                  !.gate = GateSaw(m, cs.i),
                  !.start = IF <<rule.name, cs.i>> \in m.w.RANGE_LOOKBACK_HINTS /\ cs.i > 0
                            THEN cs.i - 1 ELSE cs.i,
                  !.hint_used = <<rule.name, cs.i>> \in m.w.RANGE_LOOKBACK_HINTS /\ cs.i > 0],
                rule),
            rule)

\* one pass of the while loop of a range rule, for an untaken page cs.i
range_iteration(cs, rule) ==
    range_after_gate(match_range_start(cs.w, cs.cleaned, cs.i, rule), cs, rule)

\* a single-page match: lines 2287-2306
single_matched_page(cs0, rule) ==
    LET prefix == rule.output.filename
        cs1    == [cs0 EXCEPT !.rule_name = rule.name, !.start = cs0.i, !.end = cs0.i,
                              !.hit_ok = TRUE]
    IN  IF rule.name = "Location Page DA" /\ ~rule.output.prompt
        THEN [cs1 EXCEPT
               !.location_matches = Append(@, [page |-> cs1.i, prefix |-> prefix]),
               !.taken = @ \cup {cs1.i},
               !.matches = Append(@, Match(cs1, rule, "single", "location", prefix, NoPath)),
               !.i = @ + 1]
        ELSE IF rule.output.prompt
        THEN [cs1 EXCEPT
               !.prompt_items = Append(@, [kind |-> "single", start |-> cs1.i, end |-> cs1.i,
                                          preview_page |-> cs1.i, prefix |-> prefix]),
               !.taken = @ \cup {cs1.i},
               !.matches = Append(@, Match(cs1, rule, "single", "prompt", prefix, NoPath)),
               !.i = @ + 1]
        ELSE [range_saved(file_saved(save_single(cs1.folder, cs1.i, prefix), cs1),
                          rule, prefix)
                EXCEPT !.matches[Len(cs1.matches) + 1].kind = "single"]

\* lines 2286-2306: the gate of page cs.i for a single-page rule
single_after_gate(m, cs, rule) ==
    IF m.res # "yes"
    THEN [cs EXCEPT !.w = m.w, !.cleaned = m.cleaned, !.i = @ + 1]
    ELSE single_matched_page([cs EXCEPT !.w = m.w, !.cleaned = m.cleaned,
                                        !.gate = GateSaw(m, cs.i), !.hint_used = FALSE],
                             rule)

\* one pass of the for loop of a single-page rule, for an untaken page cs.i
single_iteration(cs, rule) ==
    single_after_gate(match_single_page_rule(cs.w, cs.cleaned, cs.i, rule), cs, rule)

\* the Dealer Application post-processing loop
RECURSIVE post_dealers(_)
post_dealers(cs) ==
    IF cs.dealer_matches = <<>> THEN cs
    ELSE post_dealers(
            file_saved(
                IF cs.location_matches # <<>>
                THEN save_dealer_with_location(cs.folder, Head(cs.dealer_matches).start,
                                               Head(cs.dealer_matches).end,
                                               Head(cs.location_matches).page,
                                               Head(cs.dealer_matches).prefix)
                ELSE save_range(cs.folder, Head(cs.dealer_matches).start,
                                Head(cs.dealer_matches).end, Head(cs.dealer_matches).prefix),
                [cs EXCEPT
                  !.dealer_matches = Tail(@),
                  !.location_matches = IF @ = <<>> THEN @ ELSE Tail(@),
                  !.posts = Append(@, [dealer |-> Head(cs.dealer_matches),
                                       location |-> IF cs.location_matches = <<>> THEN -1
                                                    ELSE Head(cs.location_matches).page])]))

\* the loop over the Location pages left unpaired
RECURSIVE post_locations(_)
post_locations(cs) ==
    IF cs.location_matches = <<>> THEN cs
    ELSE post_locations(
            file_saved(
                save_single(cs.folder, Head(cs.location_matches).page,
                            Head(cs.location_matches).prefix),
                [cs EXCEPT !.location_matches = Tail(@)]))

RangeRules(cs) == SelectSeq(cs.rules, LAMBDA r : r.scope = "range")

SingleRules(cs) == SelectSeq(cs.rules, LAMBDA r : r.scope = "single_page")

\* the loop heads: on to the next rule at the end of the binder, on to the
\* single-page rules after the last range rule, out after the last rule
RECURSIVE advance(_)
advance(cs) ==
    IF cs.pc = "range"
    THEN IF cs.ri > Len(RangeRules(cs)) THEN advance([cs EXCEPT !.pc = "single", !.ri = 1, !.i = 0])
         ELSE IF cs.i >= NumPages THEN advance([cs EXCEPT !.ri = @ + 1, !.i = 0])
         ELSE cs
    ELSE IF cs.pc = "single"
    THEN IF cs.ri > Len(SingleRules(cs)) THEN [cs EXCEPT !.pc = "post"]
         ELSE IF cs.i >= NumPages THEN advance([cs EXCEPT !.ri = @ + 1, !.i = 0])
         ELSE cs
    ELSE cs

\* the end of a loop pass: an error leaves through process_pdf's finally
step_done(cs) ==
    IF cs.crashed THEN [cs EXCEPT !.pc = "crashed", !.w = end_text_session(cs.w)]
    ELSE advance(cs)

\* lines 2074-2097: the prologue of apply_rules_collect, w1 the globals
\* after the warm-up loop of process_pdf
\* line 2097: the junk pages are taken before any rule runs
junk_taken(cs) == advance([cs EXCEPT !.taken = detect_nav_sav_junk(cs.cleaned)])

collect_begin(w1, cs) ==
    junk_taken(
        collect_cleaned(
            [cs EXCEPT
              !.w = opportunistic_ocr_suspects(w1, IF w1.ALLOW_OCR THEN NoLimit ELSE 12,
                                               w1.ALLOW_OCR),
              !.cleaned = [k \in 1..NumPages |-> <<>>],
              !.auto_saved = 0, !.prompt_items = <<>>,
              !.dealer_matches = <<>>, !.location_matches = <<>>,
              !.all_pats = collect_all_range_start_pats(cs.rules),
              !.rule_name = Unbound,
              !.pc = "range", !.ri = 1, !.i = 0],
            0))

-----------------------------------------------------------------------------
(* SpecOcr: the text/OCR layer driven call by call, as the matching engine *)
(* and the orchestrator drive it within and across text sessions.          *)

Scopes == {"full", "bottom_strip", "middle_band"}

Ink1 == <<"B40", "REQ", NL, "FORB", "B40">>

ThinText == <<"req", "-", "b40">>

LongText == <<"B120", NL, "REQ">>

\* a text layer page_text finds thin (under 100 characters once cleaned)
ShortText == <<"body">>

MkPage(t, k, o, tb, sg) == [text |-> t, ink |-> k, ocr |-> o, table |-> tb, sig |-> sg]

OcrPageKinds ==
    {MkPage(<<>>, Ink1, o, FALSE, 1) : o \in {"clean", "lowconf", "faint", "flaky", "broken"}}
    \cup {MkPage(ThinText, Ink1, o, FALSE, 1) : o \in {"clean", "broken"}}
    \cup {MkPage(LongText, Ink1, "clean", TRUE, 1)}
    \cup {MkPage(<<>>, <<"REQ">>, "clean", FALSE, 1)}
    \cup {MkPage(ShortText, Ink1, o, FALSE, 1) : o \in {"clean", "broken"}}

NoCall == [op |-> "none", page |-> 0, scope |-> "full", dpi |-> DpiNone,
           rule |-> "", force |-> FALSE,
           ret |-> <<>>, again |-> FALSE, pre |-> FreshGlobals,
           pre_disk |-> EmptyMap, pre_templates |-> EmptyMap]

\* history: the text the first page_text call of the text session returned
\* for each page, the pages OCR was requested for after that, the saves made
\* so far, whether the run was cancelled and the files it had written then
NoHist == [first |-> EmptyMap, reocr |-> {}, saves |-> <<>>,
           cancelled |-> FALSE, cancel_files |-> {},
           cancel_matches |-> 0, cancel_pass |-> "none", cancel_pc |-> "none",
           rules_file |-> "ok", prev |-> [done |-> FALSE, matches |-> <<>>],
           before |-> [mem |-> FreshGlobals, disk |-> EmptyMap, templates |-> EmptyMap,
                       folder |-> NoFolder]]

\* the record of one call: its arguments, what it returned, whether page_text
\* had been called for the page before in this session, the globals before
Call(op, page, scope, dpi, ret) ==
    [op |-> op, page |-> page, scope |-> scope, dpi |-> dpi,
     rule |-> "", force |-> FALSE, ret |-> ret,
     again |-> page \in DOMAIN hist.first, pre |-> mem,
     pre_disk |-> disk, pre_templates |-> templates]

Idle == [pc |-> "idle"]

Commit(w) ==
    /\ mem' = GlobalsOf(w)
    /\ disk' = w.disk
    /\ templates' = w.templates

Now == World(mem, disk, templates)

InitOcr ==
    /\ \E pg \in OcrPageKinds : binder = [key |-> 1, pages |-> <<pg>>]
    /\ \E a \in BOOLEAN :
          mem = [FreshGlobals EXCEPT !.DOC = TRUE, !.open_docs = 1, !.ALLOW_OCR = a,
                                     !.CACHE_BINDER_KEY = 1]
    /\ disk = EmptyMap
    /\ templates = EmptyMap
    /\ folder = NoFolder
    /\ run = Idle
    /\ last = NoCall
    /\ hist = NoHist
    /\ steps = 0

ApiStep == /\ steps < MaxOps
           /\ steps' = steps + 1
           /\ UNCHANGED <<binder, folder, run>>

CommitRet(r, op, p) ==
    /\ Commit(r.w)
    /\ last' = Call(op, p, "full", DpiNone, r.ret)

\* an OCR request for page p is noted once page_text has answered for p
NoteOcr(p) ==
    hist' = IF p \in DOMAIN hist.first THEN [hist EXCEPT !.reocr = @ \cup {p}] ELSE hist

CallPageText ==
    \E p \in Pages :
        /\ ApiStep
        /\ CommitRet(page_text(Now, p), "page_text", p)
        /\ hist' = IF p \in DOMAIN hist.first THEN hist
                   ELSE [hist EXCEPT !.first = Put(@, p, last'.ret)]

CallPageCleaned ==
    \E p \in Pages :
        /\ ApiStep
        /\ mem.DOC
        /\ CommitRet(page_cleaned(Now, p), "page_cleaned", p)
        /\ UNCHANGED hist

CallOcrRegion ==
    \E p \in Pages, sc \in {"full", "bottom_strip"}, d \in {DpiNone, 300} :
        /\ ApiStep
        /\ mem.DOC
        /\ Commit(ocr_page_region_into_cache(Now, p, sc, d))
        /\ last' = Call("ocr", p, sc, d, <<>>)
        /\ NoteOcr(p)

CallForceFullPageOcr ==
    \E p \in Pages, f \in BOOLEAN, rule_name \in {"", "SSA IL"} :
        /\ ApiStep
        /\ mem.DOC
        /\ Commit(force_full_page_ocr(Now, p, f, rule_name, <<>>))
        /\ last' = [Call("force", p, "full", 300, <<>>)
                        EXCEPT !.rule = rule_name, !.force = f]
        /\ NoteOcr(p)

CallMaybeSaveTemplate ==
    \E p \in Pages :
        /\ ApiStep
        /\ mem.DOC
        /\ Commit(maybe_save_template(Now, "SSA IL", p))
        /\ last' = Call("template", p, "full", DpiNone, <<>>)
        /\ UNCHANGED hist

CallEndTextSession ==
    /\ ApiStep
    /\ mem.DOC
    /\ Commit(end_text_session(Now))
    /\ last' = Call("end", 0, "full", DpiNone, <<>>)
    /\ hist' = NoHist

CallBeginTextSession ==
    \E a \in BOOLEAN :
        /\ ApiStep
        /\ ~mem.DOC
        /\ Commit(begin_text_session(Now, a))
        /\ last' = Call("begin", 0, "full", DpiNone, <<>>)
        /\ hist' = NoHist

NextOcr ==
    \/ CallPageText
    \/ CallPageCleaned
    \/ CallOcrRegion
    \/ CallForceFullPageOcr
    \/ CallMaybeSaveTemplate
    \/ CallEndTextSession
    \/ CallBeginTextSession

SpecOcr == InitOcr /\ [][NextOcr]_vars

-----------------------------------------------------------------------------
(* Claims about the text/OCR layer *)

\* the last call was a repeated page_text call within the session
RepeatedPageText == last.op = "page_text" /\ last.again

\* the last call did no native extraction and ran no OCR
NoTextWork ==
    /\ mem.ocr_runs = last.pre.ocr_runs
    /\ mem.native_reads = last.pre.native_reads

\* C8 as stated: within one text session any repeated page_text call for a
\* page returns the text the first call returned, and does no native
\* extraction and no OCR.
C8_RepeatedCallSameText ==
    RepeatedPageText =>
        /\ last.ret = hist.first[last.page]
        /\ NoTextWork

\* C8 amended: within one text session a repeated page_text call for a page
\* does no native extraction and no OCR, and it returns the text the first
\* call returned provided no OCR was requested for the page in between.
C8_RepeatedCallCached ==
    RepeatedPageText =>
        /\ NoTextWork
        /\ last.page \notin hist.reocr => last.ret = hist.first[last.page]

\* a repeated call for a page whose first call went through OCR
C8_Witness ==
    /\ RepeatedPageText
    /\ last.page \notin hist.reocr
    /\ last.ret # <<>>
    /\ mem.ocr_runs > 0

\* C12: for every page with both a raw and a clean cache entry, the clean
\* entry is _clean_text of the raw entry, after every call of the text layer.
C12_CleanIsCleanOfRaw ==
    \A p \in (DOMAIN mem.TEXT_CACHE_RAW) \cap (DOMAIN mem.TEXT_CACHE_CLEAN) :
        mem.TEXT_CACHE_CLEAN[p] = clean_text(mem.TEXT_CACHE_RAW[p])

\* a template entry was applied to a page that had native text, after which
\* both caches hold the entry's text
C12_WitnessTemplate ==
    /\ last.op = "force"
    /\ mem.ocr_runs = 0
    /\ templates # EmptyMap
    /\ <<0, "full">> \in mem.FORCED_OCR_CACHE
    /\ 0 \in DOMAIN mem.TEXT_CACHE_CLEAN
    /\ mem.TEXT_CACHE_CLEAN[0] # <<>>

\* the last call was an OCR request within the session
OcrRequest == last.op \in {"page_text", "page_cleaned", "ocr", "force"}

\* C9: across OCR requests in a session the DPI and the length of a cached
\* (page, scope) entry never decrease, and a request with a target DPI above
\* the entry's DPI leaves an entry with at least the target DPI.
\* the raw texts one OCR run of page p can hand to _update_page_cache
EngineRaws(p) ==
    {RunRaw(OcrEngine(DocPage(p), sc, d)) :
        sc \in Scopes, d \in {ADAPTIVE_DPI_STEPS[k] : k \in DOMAIN ADAPTIVE_DPI_STEPS}}

\* the native text page_text assembles for page p while the binder is open
NativeMerged(p) ==
    JoinNL(<<NativeText(p), page_text_blocks(World(last.pre, last.pre_disk, last.pre_templates), p),
             page_text_words(World(last.pre, last.pre_disk, last.pre_templates), p)>>)

\* the last call was a page_text that found no cached text for its page,
\* read a thin but non-empty native text and escalated to OCR
ThinPageEscalated ==
    /\ last.op = "page_text"
    /\ last.pre.DOC /\ last.pre.ALLOW_OCR /\ ~last.pre.CANCELLED
    /\ last.page \notin DOMAIN last.pre.TEXT_CACHE_RAW
    /\ NativeMerged(last.page) # <<>>
    /\ TextLen(clean_text(NativeMerged(last.page))) < 100

\* C25: when page_text escalates a thin page to OCR, the text it returns and
\* caches contains the page's native text and the text every OCR run of the
\* call produced; when the OCR fails or finds nothing the native text is left
C25_EscalationKeepsNative ==
    ThinPageEscalated =>
        /\ mem.TEXT_CACHE_RAW[last.page] = last.ret
        /\ Contains(last.ret, NativeMerged(last.page))
        /\ mem.ocr_runs > last.pre.ocr_runs =>
               \E raw \in EngineRaws(last.page) : Contains(last.ret, raw)


\* the page texts of the world w
TextsOf(w) == <<w.TEXT_CACHE_RAW, w.TEXT_CACHE_CLEAN>>

\* C24: within one text session no text/OCR operation on a page discards
\* text the page's cache held: the clean text after the operation contains
\* the clean text before it; and merging the same raw text a second time
\* leaves the page's cached texts unchanged
C24_CachedTextKept ==
    /\ (OcrRequest /\ last.pre.DOC /\ last.page \in DOMAIN last.pre.TEXT_CACHE_CLEAN) =>
            Contains(Get(mem.TEXT_CACHE_CLEAN, last.page, <<>>),
                     last.pre.TEXT_CACHE_CLEAN[last.page])
    /\ \A p \in Pages : \A raw \in EngineRaws(p) :
            TextsOf(update_page_cache(update_page_cache(Now, p, raw), p, raw))
                = TextsOf(update_page_cache(Now, p, raw))

C9_EntryNeverDowngraded ==
    OcrRequest =>
        \A key \in DOMAIN last.pre.OCR_RESULT_CACHE :
            /\ key \in DOMAIN mem.OCR_RESULT_CACHE
            /\ mem.OCR_RESULT_CACHE[key].dpi >= last.pre.OCR_RESULT_CACHE[key].dpi
            /\ mem.OCR_RESULT_CACHE[key].length >= last.pre.OCR_RESULT_CACHE[key].length
            /\ (/\ last.op = "ocr"
                /\ key = <<last.page, last.scope>>
                /\ last.dpi > last.pre.OCR_RESULT_CACHE[key].dpi)
               => mem.OCR_RESULT_CACHE[key].dpi >= last.dpi

\* the entry stored for the requested (page, scope) when the last call was
\* made: the session's entry, else the binder's disk cache entry
StoredBefore ==
    LET key == <<last.page, last.scope>>
        w0  == World(last.pre, last.pre_disk, last.pre_templates)
    IN  IF key \in DOMAIN last.pre.OCR_RESULT_CACHE
        THEN [has |-> TRUE, dpi |-> last.pre.OCR_RESULT_CACHE[key].dpi,
              length |-> last.pre.OCR_RESULT_CACHE[key].length, from |-> "session"]
        ELSE IF HasDiskCache(w0, last.page, last.scope)
        THEN [has |-> TRUE, dpi |-> load_disk_cache(w0, last.page, last.scope).dpi,
              length |-> load_disk_cache(w0, last.page, last.scope).length,
              from |-> "disk"]
        ELSE [has |-> FALSE, dpi |-> 0, length |-> 0, from |-> "none"]

\* the last call was _ocr_page_region_into_cache in an open, uncancelled
\* session for a (page, scope) with a stored entry, asking for no DPI above
\* the entry's
RequestCoveredByEntry ==
    /\ last.op = "ocr"
    /\ last.pre.DOC /\ ~last.pre.CANCELLED
    /\ StoredBefore.has
    /\ (last.dpi = DpiNone \/ last.dpi <= StoredBefore.dpi)

\* C18: once an OCR request for a (page, scope) has completed and its entry
\* is stored, a later request for the same (page, scope) that asks for no DPI
\* above the stored DPI runs no OCR, in the same session and in a new session
\* on the unmodified binder, whatever the stored entry is.
C18_StoredEntryRunsNoOcr ==
    RequestCoveredByEntry => mem.ocr_runs = last.pre.ocr_runs

\* the last call was an OCR request for a page region that had an entry, in
\* the session's result cache or else in a readable disk cache file
EntryRequest ==
    /\ last.op = "ocr"
    /\ last.pre.DOC /\ ~last.pre.CANCELLED
    /\ StoredBefore.has

\* that entry
StoredEntry ==
    IF <<last.page, last.scope>> \in DOMAIN last.pre.OCR_RESULT_CACHE
    THEN last.pre.OCR_RESULT_CACHE[<<last.page, last.scope>>]
    ELSE load_disk_cache(World(last.pre, last.pre_disk, last.pre_templates),
                         last.page, last.scope)

\* none of the three upgrade conditions holds for the entry
NoUpgradeCondition ==
    /\ \/ last.dpi = DpiNone
       \/ StoredEntry.dpi >= last.dpi
    /\ StoredEntry.length >= (IF last.scope = "full" THEN 80 ELSE 35)
    /\ \/ StoredEntry.avg_conf = ConfNone
       \/ StoredEntry.avg_conf >= 85
       \/ StoredEntry.dpi >= 360

\* C26: an OCR request that finds an entry for which no upgrade condition
\* holds runs no OCR and leaves the result entry and the disk cache as they
\* were; when an upgrade condition holds OCR runs again, every pass at a DPI
\* not below the entry's
C26_ReuseUnlessUpgrade ==
    EntryRequest =>
        IF NoUpgradeCondition
        THEN /\ mem.ocr_runs = last.pre.ocr_runs
             /\ mem.OCR_RESULT_CACHE[<<last.page, last.scope>>] = StoredEntry
             /\ disk = last.pre_disk
        ELSE /\ mem.ocr_runs > last.pre.ocr_runs
             /\ mem.ocr_log # <<>>
             /\ \A k \in DOMAIN mem.ocr_log : mem.ocr_log[k].dpi >= StoredEntry.dpi

\* a request with a DPI found an entry good enough and reused it
C26_Witness == EntryRequest /\ NoUpgradeCondition /\ last.dpi # DpiNone

\* the last call was one OCR request that ran the engine
OcrRequestRan ==
    /\ last.op = "ocr"
    /\ mem.ocr_runs > last.pre.ocr_runs

\* the pass is one the loop goes on from: low confidence or short text,
\* below the ceiling
PassEscalates(scope, pass) ==
    /\ pass.dpi < 360
    /\ \/ pass.avg_conf # ConfNone /\ pass.avg_conf < 85
       \/ pass.length < (IF scope = "full" THEN 80 ELSE 35)

\* C27: the passes of one OCR request are at strictly increasing DPIs, each
\* after the first at the next ladder step above the one before, none above
\* 360 and no more passes than the ladder has steps; every pass but the last
\* had low confidence or short text below the ceiling, and the last pass is
\* the first that has not
C27_EscalationTerminates ==
    OcrRequestRan =>
        /\ Len(mem.ocr_log) = mem.ocr_runs - last.pre.ocr_runs
        /\ Len(mem.ocr_log) <= Len(ADAPTIVE_DPI_STEPS)
        /\ \A k \in DOMAIN mem.ocr_log :
              /\ mem.ocr_log[k].dpi <= 360
              /\ k > 1 =>
                    /\ mem.ocr_log[k].dpi > mem.ocr_log[k - 1].dpi
                    /\ mem.ocr_log[k].dpi \in {200, 260, 320, 360}
                    /\ ~\E d \in {200, 260, 320, 360} :
                          mem.ocr_log[k - 1].dpi < d /\ d < mem.ocr_log[k].dpi
              /\ PassEscalates(last.scope, mem.ocr_log[k]) = (k < Len(mem.ocr_log))

\* a request climbed the ladder over three passes and stopped below the
\* ceiling
C27_Witness ==
    /\ OcrRequestRan
    /\ Len(mem.ocr_log) = 3
    /\ mem.ocr_log[3].dpi < 360

-----------------------------------------------------------------------------
(* SpecSession: text sessions begun and ended in any order, a session     *)
(* begun over an open one included, with text, region and OCR requests in *)
(* between.                                                               *)

SessionPageKinds ==
    {MkPage(<<>>, Ink1, "clean", FALSE, 1),
     MkPage(ThinText, Ink1, "broken", FALSE, 1),
     MkPage(LongText, Ink1, "clean", TRUE, 1)}

InitSession ==
    /\ \E pg \in SessionPageKinds : binder = [key |-> 1, pages |-> <<pg>>]
    /\ mem = FreshGlobals
    /\ disk = EmptyMap
    /\ templates = EmptyMap
    /\ folder = NoFolder
    /\ run = Idle
    /\ last = NoCall
    /\ hist = NoHist
    /\ steps = 0

CallGetRegionClean ==
    \E p \in Pages, start_frac \in {0, 50}, end_frac \in {50, 100} :
        /\ ApiStep
        /\ Commit(get_region_clean(Now, p, start_frac, end_frac).w)
        /\ last' = Call("region", p, "full", DpiNone,
                        get_region_clean(Now, p, start_frac, end_frac).ret)
        /\ UNCHANGED hist

\* begin_text_session, whether or not a session is open
CallBeginOverSession ==
    \E a \in BOOLEAN :
        /\ ApiStep
        /\ Commit(begin_text_session(Now, a))
        /\ last' = Call("begin", 0, "full", DpiNone, <<>>)
        /\ hist' = NoHist

NextSession ==
    \/ CallBeginOverSession
    \/ CallEndTextSession
    \/ CallPageText
    \/ CallGetRegionClean
    \/ CallOcrRegion
    \/ CallForceFullPageOcr

SpecSession == InitSession /\ [][NextSession]_vars

\* every in-memory per-binder cache of the globals m is empty
CachesEmpty(m) ==
    /\ m.TEXT_CACHE_RAW = EmptyMap
    /\ m.TEXT_CACHE_CLEAN = EmptyMap
    /\ m.REGION_TEXT_CACHE = EmptyMap
    /\ m.RANGE_LOOKBACK_HINTS = {}
    /\ m.FORCED_OCR_CACHE = {}
    /\ m.OCR_PAGE_DPI = EmptyMap
    /\ m.OCR_PAGE_CONF = EmptyMap
    /\ m.OCR_RESULT_CACHE = EmptyMap
    /\ m.OCR_PAGE_SIG = EmptyMap
    /\ m.PATTERN_HIT_CACHE = EmptyMap
    /\ m.PATTERN_FIRST_CACHE = EmptyMap
    /\ m.PATTERN_CACHE_BY_PAGE = EmptyMap

\* C19: after begin_text_session and after end_text_session every in-memory
\* per-binder cache is empty, and at no time is more than one document of
\* the text layer open: begin_text_session closes an open document first.
C19_SessionBoundaryClearsCaches ==
    /\ mem.open_docs <= 1
    /\ mem.DOC <=> mem.open_docs = 1
    /\ last.op \in {"begin", "end"} => CachesEmpty(mem)

\* a session was begun over an open session that had text, region text and
\* an OCR result cached
C19_Witness ==
    /\ last.op = "begin"
    /\ last.pre.DOC
    /\ last.pre.TEXT_CACHE_RAW # EmptyMap
    /\ last.pre.REGION_TEXT_CACHE # EmptyMap
    /\ last.pre.OCR_RESULT_CACHE # EmptyMap
    /\ mem.open_docs = 1

-----------------------------------------------------------------------------
(* SpecSave: outputs saved one after another into a binder's output       *)
(* folder, over one run or several.                                        *)

MaxSaves == 3

SaveNames ==
    {FileName("A", ""), FileName("A", ".pdf"), FileName("A (2)", ""),
     FileName("FormYY", ""), FileName("Form26", "")}

SaveBinder == [key |-> 1, pages |-> <<MkPage(LongText, LongText, "clean", FALSE, 1),
                                      MkPage(LongText, LongText, "clean", FALSE, 2)>>]

InitSave ==
    /\ binder = SaveBinder
    /\ mem = [FreshGlobals EXCEPT !.DOC = TRUE, !.open_docs = 1, !.CACHE_BINDER_KEY = 1]
    /\ disk = EmptyMap
    /\ templates = EmptyMap
    /\ folder \in {NoFolder, ensure_split_folder(NoFolder)}
    /\ run = Idle
    /\ last = NoCall
    /\ hist = NoHist
    /\ steps = 0

\* one save: r is what the save function returned
Saved(r, out_name) ==
    /\ steps < MaxSaves
    /\ steps' = steps + 1
    /\ folder' = r.folder
    /\ hist' = [hist EXCEPT !.saves = Append(@,
                    [name |-> out_name, path |-> r.path,
                     fresh |-> r.path \notin DOMAIN folder.files,
                     before |-> DOMAIN folder.files])]
    /\ UNCHANGED <<binder, mem, disk, templates, run, last>>

SaveRange ==
    \E out_name \in SaveNames, e \in Pages :
        Saved(save_range(folder, 0, e, out_name), out_name)

SaveSingle ==
    \E out_name \in SaveNames, p \in Pages :
        Saved(save_single(folder, p, out_name), out_name)

SaveDealerWithLocation ==
    \E out_name \in SaveNames :
        Saved(save_dealer_with_location(folder, 0, 0, 1, out_name), out_name)

NextSave == SaveRange \/ SaveSingle \/ SaveDealerWithLocation

SpecSave == InitSave /\ [][NextSave]_vars

\* the file name requested: the name with the year filled in and ".pdf"
Requested(out_name) == ensure_pdf_ext(ReplaceYY(out_name))

\* the number of saves under the requested file name among the first i saves
SavesOf(want, i) ==
    Cardinality({m \in 1..i : Requested(hist.saves[m].name) = want})

\* no save wrote over a file: each went to a path that did not exist, and
\* every file that was in the folder or was saved is still there
NeverOverwrites ==
    /\ \A i \in DOMAIN hist.saves :
          /\ hist.saves[i].fresh
          /\ hist.saves[i].before \subseteq DOMAIN folder.files
          /\ hist.saves[i].path \in DOMAIN folder.files
    /\ \A i, j \in DOMAIN hist.saves : i # j => hist.saves[i].path # hist.saves[j].path

\* C10 as stated: no save overwrites a file, and the k-th output saved under
\* one requested name gets the suffix " (k)" for k >= 2.
C10_KthSaveGetsSuffixK ==
    /\ NeverOverwrites
    /\ \A i \in DOMAIN hist.saves :
          LET want == Requested(hist.saves[i].name)
              k    == SavesOf(want, i)
          IN  k >= 2 => hist.saves[i].path = Numbered(want, k)

\* C10 amended: no save overwrites a file; every output gets the requested
\* name if no file of that name exists and otherwise the suffix " (j)" for the
\* least j >= 2 for which no file exists, so n saves leave n distinct new files.
C10_SaveGetsFirstFreeName ==
    /\ NeverOverwrites
    /\ \A i \in DOMAIN hist.saves :
          LET want == Requested(hist.saves[i].name)
              s    == hist.saves[i]
          IN  \/ s.path = want
              \/ /\ want \in s.before
                 /\ \E j \in 2..(Cardinality(s.before) + 2) :
                       /\ s.path = Numbered(want, j)
                       /\ \A m \in 2..(j - 1) : Numbered(want, m) \in s.before

\* three saves under one requested name: the second and third are numbered
C10_Witness ==
    /\ Len(hist.saves) = 3
    /\ \A i \in 1..3 : hist.saves[i].name = FileName("A", "")
    /\ hist.saves[2].path = FileName("A (2)", ".pdf")
    /\ hist.saves[3].path = FileName("A (3)", ".pdf")
    /\ Cardinality(DOMAIN folder.files) = 3

-----------------------------------------------------------------------------
(* Spec: process_pdf run over a binder with the rules of rules.json, one   *)
(* action per stage of the run and per pass of the rule loops, with the    *)
(* cancellation flag set from outside at any moment.                       *)

MaxRuns == 2

\* the matches of one run of apply_rules_collect the model follows
MaxMatches == 4

Body == <<"B120", "B120", "B120", "B120", "B120", "B120">>

\* a page with a full text layer
Rich(words, sg) == MkPage(Body \o words, Body \o words, "clean", FALSE, sg)

\* a page with a text layer of medium length
Mid(words, sg) == MkPage(<<"B120", "B120", "B120">> \o words, words, "clean", FALSE, sg)

\* a scanned page with a thin text layer: ink is what is printed on it
Thin(words, ink, o, sg) == MkPage(words, ink, o, FALSE, sg)

Out(base) == FileName(base, "")

NoLossRule ==
    [BaseRule("Statement of No Loss", "single_page", Out("No Loss"))
        EXCEPT !.require_any = <<"REQ">>]

ReqInk == <<"B40", "REQ", "B40">>

OtherInk == <<"B40", "BODY", "B40">>

BothInk == <<"B40", "REQ", "FORB", "B40">>

\* a one-page binder and one single-page rule gated by require_any only
OnePageCases ==
    {[pages |-> <<Thin(<<"req", "-", "body">>, k, o, 1)>>, rules |-> <<NoLossRule>>] :
        k \in {ReqInk, OtherInk}, o \in {"clean", "lowconf", "broken"}}
    \cup {[pages |-> <<Rich(<<"REQ">>, 1)>>, rules |-> <<NoLossRule>>],
          [pages |-> <<Rich(<<"REQ">>, 1)>>,
           rules |-> <<[NoLossRule EXCEPT !.output.prompt = TRUE]>>],
          [pages |-> <<Mid(<<"BODY">>, 1)>>, rules |-> <<NoLossRule>>]}

\* rules with require_any and forbid_any, among them rules that force OCR,
\* over a binder with one scanned page
ForbidPages(o) ==
    <<Rich(<<"LEAD">>, 1), Thin(<<"_100_", "body">>, BothInk, o, 2), Rich(<<"END">>, 3)>>

ForbidRule(name, scope) ==
    [BaseRule(name, scope, Out("Form"))
        EXCEPT !.require_any = <<"REQ">>, !.forbid_any = <<"FORB">>,
               !.end.first_cue = <<"END">>]

ForbidCases ==
    {[pages |-> ForbidPages(o), rules |-> <<ForbidRule(nm[1], nm[2])>>] :
        o \in {"clean", "faint"},
        nm \in {<<"SSA IL", "single_page">>, <<"Plain Form", "single_page">>,
                <<"Non-Listed Driver Limitation", "range">>}}

\* a range rule that may take require_any from the previous page
FallbackRule(name) ==
    [BaseRule(name, "range", Out("Pack"))
        EXCEPT !.require_any = <<"REQ">>,
               !.start.any_cues = <<"FALL">>,
               !.start.fallback_cues = <<"FALL">>,
               !.start.fallback_to_previous = TRUE,
               !.end.first_cue = <<"END">>]

LeadRule ==
    [BaseRule("Lead Sheet", "range", Out("Lead"))
        EXCEPT !.priority = 5, !.start.any_cues = <<"LEAD">>, !.end.max_pages = 2,
               !.end.first_cue = <<"REQ">>]

FallbackCases ==
    {[pages |-> <<Rich(<<"LEAD">>, 1), Rich(<<"REQ">>, 2), Rich(<<"FALL">>, 3),
                  Rich(<<"END">>, 4)>>,
      rules |-> rs] :
        rs \in {<<FallbackRule("Policy Pack")>>,
                <<FallbackRule("Policy Pack"), LeadRule>>,
                <<[FallbackRule("Policy Pack") EXCEPT !.forbid_any = <<"LEAD">>]>>}}
    \cup {[pages |-> <<Rich(<<"LEAD">>, 1), Thin(<<"_100_", "body">>, ReqInk, "clean", 2),
                       Rich(<<"FALL">>, 3), Rich(<<"END">>, 4)>>,
           rules |-> <<FallbackRule("Non-Listed Driver Limitation")>>]}

\* range rules with end.max_pages in each end mode over a five-page binder
EndRule(mode, m, to_end, stop) ==
    [BaseRule("Signed Pack", "range", Out("Signed"))
        EXCEPT !.start.any_cues = <<"DOCUMENT COMPLETION CERTIFICATE">>,
               !.end.mode = mode, !.end.max_pages = m,
               !.end.first_cue = <<"END">>,
               !.end.fallback_to_end = to_end,
               !.end.stop_before_new_start = stop]

OtherRule ==
    [BaseRule("Other Pack", "range", Out("Other"))
        EXCEPT !.start.any_cues = <<"OTHER">>, !.end.first_cue = <<"OTHEREND">>]

FivePages(w1, w2, w3) ==
    <<Rich(<<"DOCUMENT COMPLETION CERTIFICATE">>, 1), Rich(<<w1>>, 2), Rich(<<w2>>, 3),
      Rich(<<w3>>, 4), Rich(<<"LAST">>, 5)>>

EndCases ==
    {[pages |-> FivePages("P1", "P2", "DOCUMENT HISTORY"),
      rules |-> <<EndRule(mode, 2, TRUE, FALSE)>>] :
        mode \in {"signature_rules", "next_table_page", "cue"}}
    \cup {[pages |-> FivePages("P1", "P2", "P3"), rules |-> <<EndRule("cue", 3, e, FALSE)>>] :
            e \in BOOLEAN}
    \cup {[pages |-> FivePages("P1", w, "P3"),
           rules |-> <<EndRule("cue", 3, TRUE, TRUE), OtherRule>>] :
            w \in {"OTHER", "END"}}
    \cup {[pages |-> FivePages("P1", "OTHER", "END"),
           rules |-> <<[OtherRule EXCEPT !.priority = 5], EndRule("cue", 0, TRUE, FALSE)>>]}

\* a Dealer Application with its Location page
DealerCases ==
    {[pages |-> <<Rich(<<"DEAL">>, 1), Rich(<<"DEND">>, 2), Rich(<<"LOC">>, 3)>>,
      rules |-> <<[BaseRule("Dealer Application", "range", Out("Dealer"))
                     EXCEPT !.require_any = <<"DEAL">>, !.end.first_cue = <<"DEND">>],
                  [BaseRule("Location Page DA", "single_page", Out("Loc"))
                     EXCEPT !.require_any = <<"LOC">>]>>]}

\* a range rule whose start may back up to a header on the previous page
LookbackRule(name) ==
    [BaseRule(name, "range", Out("Limit"))
        EXCEPT !.start.any_cues = <<"NLD">>, !.start.lookback_header = TRUE,
               !.end.first_cue = <<"END">>]

LookbackCases ==
    {[pages |-> <<Rich(<<"LEAD">>, 1), Rich(<<w>>, 2), Rich(<<"NLD">>, 3),
                  Rich(<<"END">>, 4)>>,
      rules |-> rs] :
        w \in {"REQ", "NLD"},
        rs \in {<<LookbackRule("Non-Listed Driver Limitation")>>,
                <<LookbackRule("Non-Listed Driver Limitation"), LeadRule>>,
                <<LookbackRule("Policy Pack")>>}}

\* a rule that forces OCR over a binder with one scanned page that lacks the
\* rule's cue
TemplateCases ==
    {[pages |-> <<Rich(<<"LEAD">>, 1), Thin(<<"_100_", "body">>, OtherInk, "clean", 2),
                  Rich(<<"END">>, 3)>>,
      rules |-> <<[BaseRule("SSA IL", "single_page", Out("Form"))
                     EXCEPT !.require_any = <<"REQ">>]>>]}

\* two consecutive pages with the start cue of a lookback-header rule whose
\* ranges are one page long
RepeatCases ==
    {[pages |-> <<Rich(<<"NLD">>, 1), Rich(<<"NLD">>, 2)>>,
      rules |-> <<[LookbackRule("Policy Pack") EXCEPT !.end.max_pages = 1]>>]}

\* a single-page rule named nm of priority pr that requires the word cue
PrioSingle(nm, pr, cue) ==
    [BaseRule(nm, "single_page", Out(nm)) EXCEPT !.priority = pr, !.require_any = <<cue>>]

\* a range rule named nm of priority pr from a LEAD page to an END page
PrioRange(nm, pr) ==
    [BaseRule(nm, "range", Out(nm))
        EXCEPT !.priority = pr, !.start.any_cues = <<"LEAD">>, !.end.first_cue = <<"END">>]

\* rules.json lists rules of several priorities in ascending order: single-page
\* rules that match the same page, one that matches the start page of a
\* range of lower priority, and two range rules with the same start cue
PriorityCases ==
    {[pages |-> <<Rich(<<"REQ">>, 1), Rich(<<"LEAD">>, 2), Rich(<<"END">>, 3),
                  Rich(<<"LEAD">>, 4), Rich(<<"END">>, 5)>>,
      rules |-> rs] :
        rs \in {<<PrioRange("Pack", 0), PrioSingle("Low Form", 1, "REQ"),
                  PrioSingle("High Form", 5, "REQ"), PrioSingle("Lead Form", 9, "LEAD")>>,
                <<PrioSingle("Low Form", 1, "REQ"), PrioRange("Low Pack", 2),
                  PrioRange("High Pack", 3)>>}}

\* a stop_before_new_start rule over a binder of medium text layers (OCR is
\* allowed) whose fifth page has a short text layer, too long for page_text
\* to escalate, and shows the other rule's start cue in its image only
StopCases ==
    {[pages |-> <<Rich(<<"DOCUMENT COMPLETION CERTIFICATE">>, 1), Mid(<<"P1">>, 2),
                  Mid(<<"P2">>, 3), Mid(<<"P3">>, 4),
                  Thin(<<"B40", "LAST">>, <<"B40", "OTHER">>, "clean", 5)>>,
      rules |-> <<EndRule("cue", 0, TRUE, TRUE), OtherRule>>]}

\* an auto-saved form next to a range and a Dealer Application that both
\* ask for a preview
PromptCases ==
    {[pages |-> <<Rich(<<"REQ">>, 1), Rich(<<"LEAD">>, 2), Rich(<<"END">>, 3),
                  Rich(<<"DEAL">>, 4)>>,
      rules |-> <<PrioSingle("Form", 1, "REQ"),
                  [PrioRange("Pack", 2) EXCEPT !.output.prompt = TRUE],
                  [BaseRule("Dealer Application", "range", Out("Dealer"))
                     EXCEPT !.require_any = <<"DEAL">>, !.end.first_cue = <<"DEND">>,
                            !.output.prompt = TRUE]>>]}

Cases ==
    OnePageCases \cup ForbidCases \cup FallbackCases \cup EndCases \cup DealerCases
    \cup LookbackCases \cup TemplateCases \cup RepeatCases \cup PriorityCases
    \cup StopCases \cup PromptCases

\* the text cache of a page of another binder after OCR: the same thin text
\* layer (text, blocks and words merged), then the printed text, which there
\* holds the cue
OtherBinderRaw ==
    merge_raw(<<"_100_", "body", NL, "_100_", "body", NL, "_100_", "body">>,
              <<"B40", "REQ", "B40">>)

\* the entry _ocr_page_region_into_cache stored for that page
OtherBinderEntry ==
    [raw       |-> OtherBinderRaw,
     clean     |-> clean_text(OtherBinderRaw),
     dpi       |-> 300,
     avg_conf  |-> 90,
     length    |-> TextLen(clean_text(OtherBinderRaw)),
     scope     |-> "full",
     image_sig |-> 9]

\* the template cache after a run over that binder stored the page for the
\* rule (_force_full_page_ocr -> _template_save)
OtherBinderTemplates ==
    template_save(World(FreshGlobals, EmptyMap, EmptyMap), "SSA IL",
                  OtherBinderEntry, OtherBinderEntry.clean).templates

\* the locals of process_pdf and apply_rules_collect before a run
NoRun(rules_json) ==
    [pc |-> "idle", outcome |-> "none", rules_json |-> rules_json, rules |-> <<>>,
     pass |-> "none", allow_ocr |-> FALSE, skip_quick |-> FALSE,
     session_paths |-> <<>>, preview_paths |-> <<>>, written |-> {}, cleaned |-> <<>>, taken |-> {},
     auto_saved |-> 0, prompt_items |-> <<>>, dealer_matches |-> <<>>,
     location_matches |-> <<>>, posts |-> <<>>, all_pats |-> <<>>,
     ri |-> 1, i |-> 0, rule_name |-> Unbound, gate |-> NoGate,
     start |-> 0, hint_used |-> FALSE, end |-> 0, hit_ok |-> FALSE, pat |-> NoPattern,
     crashed |-> FALSE, matches |-> <<>>]

Init ==
    /\ \E c \in Cases :
          /\ binder = [key |-> 1, pages |-> c.pages]
          /\ run = NoRun(c.rules)
          /\ templates \in {EmptyMap} \cup
                          (IF c \in TemplateCases THEN {OtherBinderTemplates} ELSE {})
    /\ mem = FreshGlobals
    /\ disk = EmptyMap
    /\ folder = NoFolder
    /\ last = NoCall
    /\ hist = NoHist
    /\ steps = 0

\* the locals together with the globals and the folder
Ctx == [f \in (DOMAIN run) \cup {"w", "folder"} |->
          IF f = "w" THEN Now ELSE IF f = "folder" THEN folder ELSE run[f]]

CommitRun(cs) ==
    /\ Commit(cs.w)
    /\ folder' = cs.folder
    /\ run' = [f \in DOMAIN run |-> cs[f]]
    /\ UNCHANGED <<binder, last>>

\* rules.json as process_pdf finds it: as installed, no longer valid JSON, or
\* with a pattern that re.compile rejects
RulesFiles(rules) ==
    [ok        |-> [parses |-> TRUE, rules |-> rules],
     malformed |-> [parses |-> FALSE, rules |-> <<>>],
     pattern   |-> [parses |-> TRUE,
                    rules  |-> [k \in DOMAIN rules |->
                                  IF k = Len(rules)
                                  THEN [rules[k] EXCEPT !.helpful_cues = <<BadPattern>>]
                                  ELSE rules[k]]]]

\* load_rules raises: json.load fails or a pattern does not compile
load_rules_raises(file) ==
    \/ ~file.parses
    \/ \E k \in DOMAIN file.rules : ~Compiles(file.rules[k])

\* process_pdf reporting the rules error after it opened the text session
rules_error_after_open(cs) ==
    [cs EXCEPT !.w = begin_text_session([cs.w EXCEPT !.CANCELLED = FALSE], FALSE),
               !.session_paths = <<>>, !.preview_paths = <<>>, !.written = {},
               !.matches = <<>>, !.posts = <<>>, !.auto_saved = 0, !.prompt_items = <<>>,
               !.crashed = FALSE, !.outcome = "rules error", !.pc = "returned"]

\* except Exception: messagebox.showerror("Rules error", ...); return
rules_error(cs) ==
    [cs EXCEPT !.w.CANCELLED = FALSE,
               !.session_paths = <<>>, !.preview_paths = <<>>, !.written = {},
               !.matches = <<>>, !.posts = <<>>, !.auto_saved = 0, !.prompt_items = <<>>,
               !.crashed = FALSE, !.outcome = "rules error", !.pc = "returned"]

\* what a match decides: the rule, the page range and the output name
Outcome(m) == [rule |-> m.rule.name, start |-> m.start, end |-> m.end, name |-> m.name]

\* the matches of a run that completed without being cancelled
CompletedMatches ==
    IF run.pc = "returned" /\ run.outcome = "completed" /\ ~hist.cancelled
    THEN [done |-> TRUE, matches |-> [k \in DOMAIN run.matches |-> Outcome(run.matches[k])]]
    ELSE [done |-> FALSE, matches |-> <<>>]

\* process_pdf up to the first begin_text_session
start_run(cs, file, profile) ==
    IF load_rules_raises(file) THEN rules_error(cs)
    ELSE
    [cs EXCEPT
      !.w = begin_text_session([cs.w EXCEPT !.CANCELLED = FALSE],
                               profile.skip_quick \/ profile.allow_ocr),
      !.rules = load_rules(file.rules),
      !.allow_ocr = profile.allow_ocr, !.skip_quick = profile.skip_quick,
      !.pass = IF profile.skip_quick THEN "ocr" ELSE "quick",
      !.session_paths = <<>>, !.preview_paths = <<>>, !.written = {}, !.matches = <<>>, !.posts = <<>>,
      !.outcome = "none", !.crashed = FALSE, !.pc = "warm"]

StartRun ==
    /\ run.pc \in {"idle", "returned", "crashed"}
    /\ steps < MaxRuns
    /\ steps' = steps + 1
    /\ \E kind \in DOMAIN RulesFiles(run.rules_json) :
          /\ hist' = [NoHist EXCEPT
                        !.rules_file = kind,
                        !.prev = CompletedMatches,
                        !.before = [mem |-> mem, disk |-> disk, templates |-> templates,
                                    folder |-> folder]]
          /\ CommitRun(start_run(Ctx, RulesFiles(run.rules_json)[kind],
                                 assess_binder_scan_profile))

\* the warm-up loop over the suspect pages, then the prologue of
\* apply_rules_collect
warm_up(cs) ==
    collect_begin(
        IF cs.pass = "quick" /\ ~cs.allow_ocr THEN cs.w
        ELSE warm_pages(cs.w, suspect_pages(cs.w), cs.pass = "quick"),
        cs)

Warm ==
    /\ run.pc = "warm"
    /\ CommitRun(warm_up(Ctx))
    /\ UNCHANGED <<hist, steps>>

\* one pass of a rule loop at page cs.i
rule_step(cs) ==
    IF cs.w.CANCELLED THEN [cs EXCEPT !.pc = "post"]
    ELSE IF cs.i \in cs.taken THEN advance([cs EXCEPT !.i = @ + 1])
    ELSE step_done(IF cs.pc = "range"
                   THEN range_iteration(cs, RangeRules(cs)[cs.ri])
                   ELSE single_iteration(cs, SingleRules(cs)[cs.ri]))

RangeStep ==
    /\ run.pc = "range"
    /\ Len(run.matches) < MaxMatches
    /\ CommitRun(rule_step(Ctx))
    /\ UNCHANGED <<hist, steps>>

SingleStep ==
    /\ run.pc = "single"
    /\ CommitRun(rule_step(Ctx))
    /\ UNCHANGED <<hist, steps>>

\* the post-processing of apply_rules_collect and the finally of its caller
finish_pass(cs) == [cs EXCEPT !.w = end_text_session(cs.w), !.pc = "after_pass"]

FinishPass ==
    /\ run.pc = "post"
    /\ CommitRun(finish_pass(post_locations(post_dealers(Ctx))))
    /\ UNCHANGED <<hist, steps>>

\* process_pdf after a pass: the deep scan, the cancellation check, the
\* preview flow or the end
after_pass(cs) ==
    IF cs.pass = "quick" /\ cs.auto_saved = 0 /\ cs.prompt_items = <<>> /\ cs.allow_ocr
    THEN [cs EXCEPT !.pass = "deep", !.pc = "warm", !.w = begin_text_session(cs.w, TRUE)]
    ELSE IF cs.w.CANCELLED
    THEN [cs EXCEPT
           !.folder = delete_paths_and_maybe_folder(cs.folder, PathSet(cs.session_paths)),
           !.outcome = "cancelled", !.pc = "returned"]
    ELSE IF cs.prompt_items # <<>>
    THEN [cs EXCEPT !.w = begin_text_session(cs.w, FALSE), !.pc = "preview"]
    ELSE [cs EXCEPT !.outcome = "completed", !.pc = "returned"]

AfterPass ==
    /\ run.pc = "after_pass"
    /\ CommitRun(after_pass(Ctx))
    /\ UNCHANGED <<hist, steps>>

\* new_doc.save(out_path); self._saved_paths.append(out_path)
preview_saved(r, cs) ==
    [cs EXCEPT !.folder = r.folder,
               !.preview_paths = Append(@, r.path),
               !.written = @ \cup {r.path}]

\* PreviewFlow.on_save with the suggested name left as it is (a name with
\* none of the characters sanitize_filename removes)
on_save(cs, item) ==
    preview_saved(save_as(ensure_split_folder(cs.folder),
                          unique_path(cs.folder, ensure_pdf_ext(ReplaceYY(item.prefix))),
                          PageSeq(item.start, item.end)),
                  cs)

\* the preview flow over the queue from item k on: Save or Skip for each
RECURSIVE preview_items(_, _, _)
preview_items(cs, k, decisions) ==
    IF k > Len(cs.prompt_items) THEN cs
    ELSE preview_items(IF decisions[k] = "save" THEN on_save(cs, cs.prompt_items[k]) ELSE cs,
                       k + 1, decisions)

\* the preview flow closes: a cancelled flow discards what it saved, and
\* process_pdf then deletes the files of the run
preview_closed(cs, flow_cancelled) ==
    IF flow_cancelled
    THEN [cs EXCEPT
           !.w = end_text_session(cs.w),
           !.folder = delete_paths_and_maybe_folder(
                          delete_paths_and_maybe_folder(cs.folder, PathSet(cs.preview_paths)),
                          PathSet(cs.session_paths)),
           !.preview_paths = <<>>,
           !.outcome = "preview_cancelled", !.pc = "returned"]
    ELSE [cs EXCEPT !.w = end_text_session(cs.w),
                    !.outcome = "completed", !.pc = "returned"]

Preview ==
    /\ run.pc = "preview"
    /\ \E flow_cancelled \in BOOLEAN,
          decisions \in [1..Len(run.prompt_items) -> {"save", "skip"}] :
            CommitRun(preview_closed(preview_items(Ctx, 1, decisions), flow_cancelled))
    /\ UNCHANGED <<hist, steps>>

\* the history once the flag is set: the files written and the matches made
\* when it was first set in this run, and the pass that was running
NoteCancel ==
    IF hist.cancelled THEN hist
    ELSE [hist EXCEPT !.cancelled = TRUE, !.cancel_files = run.written,
                      !.cancel_matches = Len(run.matches), !.cancel_pass = run.pass,
                      !.cancel_pc = run.pc]

\* set_cancelled() called from outside while process_pdf runs
SetCancelled ==
    /\ run.pc \in {"warm", "range", "single", "post", "after_pass"}
    /\ ~mem.CANCELLED
    /\ Commit(set_cancelled(Now))
    /\ hist' = NoteCancel
    /\ UNCHANGED <<binder, folder, run, last, steps>>

\* one pass of a rule loop in which pump() handles the Cancel click: the
\* flag is set after the pass's own check of it (lines 2109-2112, 2277-2280)
pump_cancel_step(cs) ==
    IF cs.i \in cs.taken THEN advance([cs EXCEPT !.w = set_cancelled(cs.w), !.i = @ + 1])
    ELSE step_done(IF cs.pc = "range"
                   THEN range_iteration([cs EXCEPT !.w = set_cancelled(cs.w)],
                                        RangeRules(cs)[cs.ri])
                   ELSE single_iteration([cs EXCEPT !.w = set_cancelled(cs.w)],
                                         SingleRules(cs)[cs.ri]))

PumpCancel ==
    /\ run.pc \in {"range", "single"}
    /\ ~mem.CANCELLED
    /\ run.pc = "range" => Len(run.matches) < MaxMatches
    /\ hist' = NoteCancel
    /\ CommitRun(pump_cancel_step(Ctx))
    /\ UNCHANGED steps

\* the Cache directory is emptied between two runs
ClearCaches ==
    /\ run.pc = "returned"
    /\ disk # EmptyMap \/ templates # EmptyMap
    /\ disk' = EmptyMap
    /\ templates' = EmptyMap
    /\ hist' = [hist EXCEPT !.before.disk = EmptyMap, !.before.templates = EmptyMap]
    /\ UNCHANGED <<binder, mem, folder, run, last, steps>>

Next ==
    \/ StartRun
    \/ ClearCaches
    \/ PumpCancel
    \/ Warm
    \/ RangeStep
    \/ SingleStep
    \/ FinishPass
    \/ AfterPass
    \/ Preview
    \/ SetCancelled

Spec == Init /\ [][Next]_vars

-----------------------------------------------------------------------------
(* Claims about a run *)

Matches == {run.matches[k] : k \in DOMAIN run.matches}

RangeMatches == {m \in Matches : m.kind = "range"}

MatchPages(m) == m.start..m.end

\* a rule pass that ran through every rule and page
FullPassDone == run.pc = "after_pass" /\ ~hist.cancelled

\* C1: after a full rule pass the page sets of any two distinct matches
\* (saved ranges and pages, Dealer Application ranges, prompt items) are
\* disjoint
C1_MatchesDisjoint ==
    FullPassDone =>
        \A a, b \in DOMAIN run.matches :
            a # b => MatchPages(run.matches[a]) \cap MatchPages(run.matches[b]) = {}

\* the flag was set during the run when files of the run were on disk
CancelledAfterWrites == hist.cancelled /\ hist.cancel_files # {}

\* C2: if the cancellation flag is set during a run after output files of the
\* run were written, then when process_pdf returns none of the files written
\* in the run remain and the output folder is removed if it is empty
C2_CancelRollsBack ==
    (run.pc = "returned" /\ CancelledAfterWrites) =>
        /\ run.written \cap DOMAIN folder.files = {}
        /\ DOMAIN folder.files = {} => ~folder.present

\* C3: every range match has start <= end and, when the rule sets
\* end.max_pages = m > 0, end <= min(N-1, start + m - 1), in every end mode
C3_RangeWithinMaxPages ==
    \A m \in RangeMatches :
        /\ m.start <= m.end
        /\ m.rule.end.max_pages > 0 =>
              m.end <= Min2(NumPages - 1, m.start + m.rule.end.max_pages - 1)

\* the last page of the scan window of a match
WindowEnd(m) == Min2(NumPages - 1, m.start + m.rule.end.max_pages - 1)

\* a match of a cue-mode rule with max_pages whose end cue is on no page of
\* the scan window
MissedCue(m) ==
    /\ m.kind = "range"
    /\ m.rule.end.mode = "cue"
    /\ m.rule.end.max_pages > 0
    /\ m.rule.end.first_cue # NoPats
    /\ \A j \in (m.start + 1)..WindowEnd(m) :
          Hits(m.cleaned[j + 1], m.rule.end.first_cue) = 0

Tagged(m) == m.name = tag_if_missed(m.rule.output.filename, TRUE)

\* a page of the window shows the start cue of another range rule while the
\* rule stops before new starts
NewStartInWindow(m) ==
    /\ m.rule.end.stop_before_new_start
    /\ \E j \in (m.start + 1)..WindowEnd(m) :
          Hits(m.cleaned[j + 1], OtherStartPats(m.rule, run.all_pats)) > 0

\* C4 as stated: a cue-mode match with max_pages = m whose end cue is on no
\* page of the window covers exactly [start, min(N-1, start+m-1)] and is
\* tagged "missed end cue"; a match whose end was confirmed is never tagged
C4_MissedCueTakesWindow ==
    \A m \in RangeMatches :
        /\ MissedCue(m) => m.end = WindowEnd(m) /\ Tagged(m)
        /\ m.hit_ok => ~Tagged(m)

\* C4 amended: the same with end.fallback_to_end not disabled and no new
\* start in the window of a rule that stops before new starts; with
\* fallback_to_end disabled the match covers [start, start], tagged
C4_MissedCueFallback ==
    \A m \in RangeMatches :
        /\ (MissedCue(m) /\ ~NewStartInWindow(m)) =>
              /\ Tagged(m)
              /\ m.end = IF m.rule.end.fallback_to_end THEN WindowEnd(m) ELSE m.start
        /\ m.hit_ok => ~Tagged(m)

C4_Witness ==
    \E m \in RangeMatches :
        /\ MissedCue(m) /\ ~NewStartInWindow(m) /\ m.rule.end.fallback_to_end
        /\ NumPages = 5 /\ m.rule.end.max_pages = 3
        /\ m.start = 0 /\ m.end = 2 /\ Tagged(m)
        /\ m.path \in DOMAIN folder.files
        /\ folder.files[m.path] = <<0, 1, 2>>

\* C5: a page whose text matches both require_any and forbid_any of a rule is
\* never a match of that rule, also when a forced-OCR retry replaced the text
\* during the evaluation
C5_ForbidOverridesRequire ==
    \A m \in Matches :
        ~(/\ Hits(m.gate.text, m.rule.require_any) > 0
          /\ Hits(m.gate.text, m.rule.forbid_any) > 0)

\* the fallback_cues are on page i, require_any is on page i-1 and not on i
FallbackCase(m) ==
    /\ m.kind = "range"
    /\ m.rule.start.fallback_to_previous
    /\ m.at > 0
    /\ Hits(m.gate.text, m.rule.start.fallback_cues) > 0
    /\ Hits(m.gate.text, m.rule.require_any) = 0
    /\ Hits(m.gate.prev, m.rule.require_any) > 0

\* C6: a range rule with fallback_to_previous whose fallback_cues match page
\* i, with require_any on page i-1 and not on page i, starts at i-1
C6_FallbackStartsOnPreviousPage ==
    \A m \in Matches : FallbackCase(m) => m.start = m.at - 1

C6_Witness ==
    \E m \in Matches :
        /\ FallbackCase(m) /\ m.at = 2 /\ m.start = 1
        /\ m.path \in DOMAIN folder.files
        /\ Head(folder.files[m.path]) = 1

\* a one-page binder whose native text matches the require_any of the only
\* rule, a single-page rule with no other gate, saved without preview
OnePageRequireCase ==
    /\ NumPages = 1
    /\ Len(run.rules) = 1
    /\ run.rules[1] = [BaseRule(run.rules[1].name, "single_page",
                                run.rules[1].output.filename)
                         EXCEPT !.require_any = run.rules[1].require_any]
    /\ Hits(clean_text(NativeText(0)), run.rules[1].require_any) > 0

\* C7: in that case a run reports exactly one auto-saved output, of page 0,
\* whatever the scan profile decides and whatever OCR returns
C7_OnePageOneOutput ==
    (run.pc = "returned" /\ run.outcome = "completed" /\ ~hist.cancelled
        /\ OnePageRequireCase) =>
        /\ run.auto_saved = 1
        /\ Len(run.session_paths) = 1
        /\ \A q \in run.written : q \in DOMAIN folder.files /\ folder.files[q] = <<0>>


\* the last call was _ocr_page_region_into_cache and every OCR run it made
\* raised
OcrRaised ==
    /\ last.op = "ocr"
    /\ mem.ocr_runs > last.pre.ocr_runs
    /\ \/ DocPage(last.page).ocr = "broken"
       \/ DocPage(last.page).ocr = "flaky" /\ last.dpi = 300

\* C14: if the OCR step raises during _ocr_page_region_into_cache for page p,
\* the raw and the clean text cached for p are what they were before the
\* call: the raw cache has the entry it had or none as before, and the clean
\* cache has the entry it had or, at most, the clean form of the kept raw text.
C14_OcrErrorKeepsText ==
    OcrRaised =>
        LET p == last.page
        IN  /\ (p \in DOMAIN mem.TEXT_CACHE_RAW) = (p \in DOMAIN last.pre.TEXT_CACHE_RAW)
            /\ p \in DOMAIN last.pre.TEXT_CACHE_RAW =>
                   mem.TEXT_CACHE_RAW[p] = last.pre.TEXT_CACHE_RAW[p]
            /\ IF p \in DOMAIN last.pre.TEXT_CACHE_CLEAN
               THEN /\ p \in DOMAIN mem.TEXT_CACHE_CLEAN
                    /\ mem.TEXT_CACHE_CLEAN[p] = last.pre.TEXT_CACHE_CLEAN[p]
               ELSE p \in DOMAIN mem.TEXT_CACHE_CLEAN =>
                    /\ p \in DOMAIN last.pre.TEXT_CACHE_RAW
                    /\ mem.TEXT_CACHE_CLEAN[p] = clean_text(last.pre.TEXT_CACHE_RAW[p])

-----------------------------------------------------------------------------
(* SpecCache: the text/OCR layer started on a cache directory that holds   *)
(* a damaged file: a disk cache file or a template file that is not JSON,  *)
(* is JSON but no object, lacks raw/clean, or has another version.         *)

\* what is left of an entry in a damaged file
StaleEntry ==
    [raw |-> <<"FORB">>, clean |-> <<"FORB">>, dpi |-> 360, avg_conf |-> 90,
     length |-> 200, scope |-> "full", image_sig |-> 1]

DamagedDiskFiles ==
    {StaleEntry @@ [file |-> k] : k \in {"unreadable", "array", "no_text"}}

StaleTemplate(file, version) ==
    [file |-> file, version |-> version, rule |-> "SSA IL",
     prefix |-> <<"REQ">>, tokens |-> {"REQ", "FORB"}, hits |-> 0,
     raw |-> <<"FORB">>, clean |-> <<"FORB">>, dpi |-> 360, avg_conf |-> 90,
     length |-> 200, image_sig |-> 1]

DamagedTemplates ==
    {StaleTemplate("unreadable", TEMPLATE_CACHE_VERSION),
     StaleTemplate("array", TEMPLATE_CACHE_VERSION),
     StaleTemplate("object", TEMPLATE_CACHE_VERSION + 1)}

CachePages ==
    {MkPage(ThinText, Ink1, "clean", FALSE, 1), MkPage(<<>>, Ink1, "lowconf", FALSE, 1)}

InitCache ==
    /\ \E pg \in CachePages : binder = [key |-> 1, pages |-> <<pg>>]
    /\ \E a \in BOOLEAN :
          mem = [FreshGlobals EXCEPT !.DOC = TRUE, !.open_docs = 1, !.ALLOW_OCR = a,
                                     !.CACHE_BINDER_KEY = 1]
    /\ \/ /\ \E d \in DamagedDiskFiles : disk = Put(EmptyMap, <<1, 0, "full">>, d)
          /\ templates = EmptyMap
       \/ /\ disk = EmptyMap
          /\ \E t \in DamagedTemplates :
                templates = Put(EmptyMap, <<"SSA IL", <<"FORB">>>>, t)
    /\ folder = NoFolder
    /\ run = Idle
    /\ last = NoCall
    /\ hist = NoHist
    /\ steps = 0

SpecCache == InitCache /\ [][NextOcr]_vars

\* the files of the disk cache that _load_disk_cache accepts
ValidDiskFiles(d) == [k \in {x \in DOMAIN d : d[x].file = "entry"} |-> d[k]]

\* the template files that _template_load_entry accepts
ValidTemplates(t) == [k \in {x \in DOMAIN t : template_load_entry(t[x])} |-> t[k]]

\* the state before the last call with the damaged files removed
WithoutDamaged ==
    World(last.pre, ValidDiskFiles(last.pre_disk), ValidTemplates(last.pre_templates))

DamagedBefore ==
    \/ ValidDiskFiles(last.pre_disk) # last.pre_disk
    \/ ValidTemplates(last.pre_templates) # last.pre_templates

\* C16: a damaged disk cache file or template file is a cache miss: every
\* call of the text layer leaves the in-memory caches, and returns, what it
\* would with the damaged files absent.
C16_DamagedFileIsMiss ==
    DamagedBefore =>
        /\ last.op = "ocr" =>
              mem = GlobalsOf(ocr_page_region_into_cache(WithoutDamaged, last.page,
                                                        last.scope, last.dpi))
        /\ last.op = "force" =>
              mem = GlobalsOf(force_full_page_ocr(WithoutDamaged, last.page, last.force,
                                                 last.rule, <<>>))
        /\ last.op = "page_text" =>
              /\ mem = GlobalsOf(page_text(WithoutDamaged, last.page).w)
              /\ last.ret = page_text(WithoutDamaged, last.page).ret
        /\ last.op = "page_cleaned" =>
              /\ mem = GlobalsOf(page_cleaned(WithoutDamaged, last.page).w)
              /\ last.ret = page_cleaned(WithoutDamaged, last.page).ret

\* forced OCR found a damaged disk cache file for the page, ran OCR and
\* replaced the file by a fresh entry
C16_Witness ==
    /\ last.op = "force"
    /\ <<1, 0, "full">> \in DOMAIN last.pre_disk
    /\ last.pre_disk[<<1, 0, "full">>].file = "no_text"
    /\ mem.ocr_runs > last.pre.ocr_runs
    /\ disk[<<1, 0, "full">>].file = "entry"
    /\ mem.TEXT_CACHE_CLEAN[0] # <<"FORB">>

\* C21: after each range match the scan index strictly increases: the next
\* index examined (end + 1) is greater than the page whose start gate
\* matched, so no page range is matched and saved twice by a rule.
C21_ScanIndexIncreases ==
    /\ \A m \in RangeMatches : m.end + 1 > m.at
    /\ \A k, l \in DOMAIN run.matches :
          (/\ k < l
           /\ run.matches[k].kind = "range"
           /\ run.matches[l].kind = "range"
           /\ run.matches[k].rule = run.matches[l].rule)
          => run.matches[k].start # run.matches[l].start

\* C22: once the cancellation flag is set during a pass, apply_rules_collect
\* makes no further match and writes no further output file before it
\* returns: when the pass is over, the files written and the matches made are
\* those of the moment the flag was set.
C22_NoWorkAfterCancel ==
    (hist.cancelled /\ run.pc = "after_pass" /\ run.pass = hist.cancel_pass) =>
        /\ run.written = hist.cancel_files
        /\ Len(run.matches) = hist.cancel_matches

\* the flag was set while a scan pass of the run was running
CancelledInPass == hist.cancelled /\ hist.cancel_pc \in {"warm", "range", "single", "post"}

\* C23: a flag set while a scan pass runs is still seen by process_pdf after
\* the pass: no further scan pass starts, no preview opens, and the run ends
\* in the cancelled outcome, never in the completed one
C23_CancelSeenAfterPass ==
    CancelledInPass =>
        /\ run.pass = hist.cancel_pass
        /\ run.pc # "preview"
        /\ run.pc = "returned" => run.outcome = "cancelled"

\* the single-page rule r2 matches the page of the match m as its text stood
\* when m was made
AlsoMatches(r2, m) ==
    match_single_page_rule(end_text_session(Now), m.cleaned, m.at, r2).res = "yes"

StopBeforeMatch(m) ==
    /\ m.kind = "range"
    /\ m.rule.end.stop_before_new_start
    /\ m.rule.end.mode \notin {"signature_rules", "next_table_page"}
    /\ ~hist.cancelled

\* C29: a range found by a stop_before_new_start rule in cue-scan mode holds
\* no page after its start page whose text, as the end scan left it, matches
\* a start cue of another range rule
C29_StopsBeforeNewStart ==
    \A k \in DOMAIN run.matches :
        StopBeforeMatch(run.matches[k]) =>
            \A j \in (run.matches[k].start + 1)..run.matches[k].end :
                Hits(run.matches[k].cleaned[j + 1],
                     OtherStartPats(run.matches[k].rule, run.all_pats)) = 0

\* page j of the binder is table-like
TablePage(j) == j < NumPages /\ DocPage(j).table

\* C30: a range found in end.mode next_table_page by a scan that was not
\* cancelled has a confirmed end only if its end page is table-like and lies
\* one or two pages after its start; when neither of those two pages is
\* table-like the end is not confirmed
C30_TableEndConfirmed ==
    \A k \in DOMAIN run.matches :
        (/\ ~hist.cancelled
         /\ run.matches[k].kind = "range"
         /\ run.matches[k].rule.end.mode = "next_table_page"
         /\ run.matches[k].hit_ok)
            => /\ run.matches[k].end \in {run.matches[k].start + 1, run.matches[k].start + 2}
               /\ TablePage(run.matches[k].end)

\* C35: every range match has 0 <= start <= end <= N-1, its start is the
\* page whose start gate matched or the page before it, the gate page lies
\* within [start, end], and a prompt item's preview page lies within its
\* range.
C35_RangeWithinBinder ==
    /\ \A m \in RangeMatches :
          /\ 0 <= m.start /\ m.start <= m.end /\ m.end <= NumPages - 1
          /\ m.start \in {m.at, m.at - 1}
          /\ m.start <= m.at /\ m.at <= m.end
    /\ \A k \in DOMAIN run.prompt_items :
          run.prompt_items[k].kind = "range" =>
              /\ run.prompt_items[k].start <= run.prompt_items[k].preview_page
              /\ run.prompt_items[k].preview_page <= run.prompt_items[k].end

\* the files in the output folder that were not there when the run began
WrittenByRun == (DOMAIN folder.files) \ (DOMAIN hist.before.folder.files)

\* C37: on return from apply_rules_collect the auto_saved count is the
\* number of paths appended to session_paths, every file written is in
\* session_paths exactly once, and a rule with output.prompt set gives
\* prompt items only, never a written file.
C37_SavedCountsAgree ==
    run.pc = "after_pass" =>
        /\ run.auto_saved = Len(run.session_paths)
        /\ \A f \in WrittenByRun :
              Cardinality({k \in DOMAIN run.session_paths : run.session_paths[k] = f}) = 1
        /\ \A k \in DOMAIN run.session_paths : run.session_paths[k] \in WrittenByRun
        /\ \A m \in Matches : m.rule.output.prompt => m.how = "prompt" /\ m.path = NoPath
        /\ Len(run.prompt_items) =
              Cardinality({k \in DOMAIN run.matches : run.matches[k].rule.output.prompt})

\* a pass returned with a file written and prompt items collected, one of
\* them for a Dealer Application that asks for a preview
C37_Witness ==
    /\ run.pc = "after_pass"
    /\ run.auto_saved >= 1
    /\ Len(run.prompt_items) >= 2
    /\ \E m \in Matches : m.rule.name = "Dealer Application" /\ m.how = "prompt"

\* C17: for the same binder, rules and OCR outcomes a run produces the same
\* matches (rule, page range, output name) whether the disk OCR cache and the
\* template cache are empty or were filled by an earlier run.
C17_SameMatchesWithCaches ==
    (CompletedMatches.done /\ hist.prev.done) =>
        CompletedMatches.matches = hist.prev.matches

\* C15: if load_rules fails, process_pdf returns before any text session is
\* opened: no page is read, no OCR runs, the in-memory caches, the disk cache,
\* the template cache and the output folder are as they were before the run.
C15_RulesErrorTouchesNothing ==
    (run.pc = "returned" /\ hist.rules_file # "ok") =>
        /\ run.outcome = "rules error"
        /\ ~mem.DOC
        /\ mem = [hist.before.mem EXCEPT !.CANCELLED = FALSE]
        /\ disk = hist.before.disk
        /\ templates = hist.before.templates
        /\ folder = hist.before.folder
        /\ run.written = {}

\* a run that found a pattern that does not compile, after a run that had
\* saved an output and filled the disk cache
C15_Witness ==
    /\ run.pc = "returned"
    /\ hist.rules_file = "pattern"
    /\ run.outcome = "rules error"
    /\ DOMAIN folder.files # {}
    /\ disk # EmptyMap

\* C13: no error raised while one page is evaluated against one rule
\* propagates out of apply_rules_collect: a pass never ends by an exception.
C13_NoErrorPropagates == run.pc # "crashed" /\ ~run.crashed

-----------------------------------------------------------------------------
(* SpecClean: _clean_text at character granularity.  A string is a         *)
(* sequence of characters drawn from representatives of the classes the    *)
(* function distinguishes: a lower-case letter, an upper-case letter, a    *)
(* digit, "#", "/", a letter whose upper case is two letters, punctuation, *)
(* a blank and a line break.                                               *)

MaxLen == 4

Chars == {"a", "A", "7", "#", "/", "ß", "-", " ", NL}

\* the strings of at most n characters
RECURSIVE Strings(_)
Strings(n) ==
    IF n = 0 THEN {<<>>}
    ELSE Strings(n - 1) \cup
         {Append(s, c) : s \in {t \in Strings(n - 1) : Len(t) = n - 1}, c \in Chars}

\* str.upper() of one character
UpperChar(c) ==
    CASE c = "a" -> <<"A">>
      [] c = "ß" -> <<"S", "S">>
      [] OTHER   -> <<c>>

RECURSIVE str_upper(_)
str_upper(s) == IF s = <<>> THEN <<>> ELSE UpperChar(Head(s)) \o str_upper(Tail(s))

\* the class [A-Z0-9#+/]
InClass(c) == c \in {"A", "S", "7", "#", "+", "/"}

\* the class \s
IsSpace(c) == c \in {" ", NL}

\* re.sub(r"[^A-Z0-9#+/]+", " ", s): every maximal run outside the class
\* becomes one blank
RECURSIVE sub_outside_class(_)
sub_outside_class(s) ==
    IF s = <<>> THEN <<>>
    ELSE IF InClass(Head(s)) THEN <<Head(s)>> \o sub_outside_class(Tail(s))
    ELSE IF Len(s) >= 2 /\ ~InClass(s[2]) THEN sub_outside_class(Tail(s))
    ELSE <<" ">> \o sub_outside_class(Tail(s))

\* re.sub(r"\s+", " ", s): every maximal run of white space becomes one blank
RECURSIVE sub_spaces(_)
sub_spaces(s) ==
    IF s = <<>> THEN <<>>
    ELSE IF ~IsSpace(Head(s)) THEN <<Head(s)>> \o sub_spaces(Tail(s))
    ELSE IF Len(s) >= 2 /\ IsSpace(s[2]) THEN sub_spaces(Tail(s))
    ELSE <<" ">> \o sub_spaces(Tail(s))

RECURSIVE str_lstrip(_)
str_lstrip(s) == IF s # <<>> /\ IsSpace(Head(s)) THEN str_lstrip(Tail(s)) ELSE s

RECURSIVE str_rstrip(_)
str_rstrip(s) ==
    IF s # <<>> /\ IsSpace(s[Len(s)]) THEN str_rstrip(SubSeq(s, 1, Len(s) - 1)) ELSE s

\* str.strip()
str_strip(s) == str_rstrip(str_lstrip(s))

\* _clean_text without the final strip()
clean_text_unstripped(s) ==
    IF s = <<>> THEN <<>> ELSE sub_spaces(sub_outside_class(str_upper(s)))

\* _clean_text(s)
clean_text_chars(s) ==
    IF s = <<>> THEN <<>> ELSE str_strip(sub_spaces(sub_outside_class(str_upper(s))))

NoClean == [op |-> "none", raw |-> <<>>, arg |-> <<>>, ret |-> <<>>, again |-> FALSE]

InitClean ==
    /\ binder = SaveBinder
    /\ mem = FreshGlobals
    /\ disk = EmptyMap
    /\ templates = EmptyMap
    /\ folder = NoFolder
    /\ run = Idle
    /\ \E raw \in Strings(MaxLen) : last = [NoClean EXCEPT !.raw = raw]
    /\ hist = NoHist
    /\ steps = 0

\* _clean_text(raw)
CleanRaw ==
    /\ last.op = "none"
    /\ last' = [last EXCEPT !.op = "clean_text", !.arg = last.raw,
                            !.ret = clean_text_chars(last.raw)]
    /\ steps' = steps + 1
    /\ UNCHANGED <<binder, mem, disk, templates, folder, run, hist>>

\* _clean_text applied to what _clean_text returned
CleanAgain ==
    /\ last.op = "clean_text"
    /\ ~last.again
    /\ last' = [last EXCEPT !.arg = last.ret, !.ret = clean_text_chars(last.ret),
                            !.again = TRUE]
    /\ steps' = steps + 1
    /\ UNCHANGED <<binder, mem, disk, templates, folder, run, hist>>

NextClean == CleanRaw \/ CleanAgain

SpecClean == InitClean /\ [][NextClean]_vars

\* only characters of the class, separated by single blanks, no blank at
\* either end
CleanShape(s) ==
    /\ \A k \in 1..Len(s) : InClass(s[k]) \/ s[k] = " "
    /\ s # <<>> => s[1] # " " /\ s[Len(s)] # " "
    /\ \A k \in 1..(Len(s) - 1) : ~(s[k] = " " /\ s[k + 1] = " ")

\* C11: _clean_text is idempotent, and what it returns holds only characters
\* of [A-Z0-9#+/] separated by single blanks, with no blank at either end.
C11_CleanTextIdempotent ==
    last.op = "clean_text" =>
        /\ CleanShape(last.ret)
        /\ last.again => last.ret = last.arg

\* a string with a lower-case letter, punctuation and trailing white space
\* was cleaned twice
C11_Witness ==
    /\ last.again
    /\ last.raw = <<"a", "-", NL, " ">>
    /\ last.ret = <<"A">>

-----------------------------------------------------------------------------
(* SpecName: the save functions on file names taken character by          *)
(* character.  The names have no path separator: with one, os.path.join   *)
(* makes the name a path into a subfolder.                                *)

MaxPieces == 3

MaxNamed == 2

\* what a rule's output.filename is made of
NamePieces ==
    {<<"A">>, <<"Y">>, <<"Y", "Y">>, <<":">>, <<"?">>, <<" ">>, <<".">>,
     <<".", "p", "d", "f">>, <<".", "P", "D", "F">>}

\* the names of at most n pieces
RECURSIVE NamesOf(_)
NamesOf(n) ==
    IF n = 0 THEN {<<>>}
    ELSE NamesOf(n - 1) \cup {s \o pc : s \in NamesOf(n - 1), pc \in NamePieces}

\* INVALID_CHARS
INVALID_CHARS == {"\\", "/", ":", "*", "?", "\"", "<", ">", "|"}

\* datetime.now().strftime("%y")
YearChars == <<"2", "6">>

\* out_name.replace("YY", year): occurrences left to right, not overlapping
RECURSIVE replace_yy(_)
replace_yy(name) ==
    IF Len(name) < 2 THEN name
    ELSE IF name[1] = "Y" /\ name[2] = "Y"
    THEN YearChars \o replace_yy(SubSeq(name, 3, Len(name)))
    ELSE <<Head(name)>> \o replace_yy(Tail(name))

\* str.lower() of one character
LowerChar(c) ==
    CASE c = "A" -> "a"
      [] c = "Y" -> "y"
      [] c = "P" -> "p"
      [] c = "D" -> "d"
      [] c = "F" -> "f"
      [] OTHER   -> c

str_lower(s) == [k \in 1..Len(s) |-> LowerChar(s[k])]

\* s.endswith(suffix)
EndsWith(s, suffix) ==
    Len(suffix) <= Len(s) /\ SubSeq(s, Len(s) - Len(suffix) + 1, Len(s)) = suffix

PdfExt == <<".", "p", "d", "f">>

\* ensure_pdf_ext on characters
ensure_pdf_ext_chars(name) ==
    IF EndsWith(str_lower(str_strip(name)), PdfExt) THEN str_strip(name)
    ELSE str_strip(name) \o PdfExt

\* os.path.splitext: the extension starts at the last dot that has a
\* character other than a dot before it
splitext(name) ==
    LET dots == {k \in 1..Len(name) : name[k] = "."}
        last_dot == IF dots = {} THEN 0 ELSE CHOOSE k \in dots : \A j \in dots : j <= k
    IN  IF last_dot > 0 /\ \E j \in 1..(last_dot - 1) : name[j] # "."
        THEN [base |-> SubSeq(name, 1, last_dot - 1),
              ext  |-> SubSeq(name, last_dot, Len(name))]
        ELSE [base |-> name, ext |-> <<>>]

RECURSIVE unique_chars_from(_, _, _, _)

\* the while loop of unique_path on characters
unique_chars_from(f, filename, candidate, n) ==
    IF candidate \in DOMAIN f.files
    THEN unique_chars_from(f, filename,
                           splitext(filename).base \o <<" ", "(", ToString(n), ")">>
                              \o splitext(filename).ext,
                           n + 1)
    ELSE candidate

\* the path save_range, save_single and save_dealer_with_location write to
out_path(f, out_name) ==
    unique_chars_from(f, ensure_pdf_ext_chars(replace_yy(out_name)),
                      ensure_pdf_ext_chars(replace_yy(out_name)), 2)

InitName ==
    /\ binder = SaveBinder
    /\ mem = [FreshGlobals EXCEPT !.DOC = TRUE, !.open_docs = 1, !.CACHE_BINDER_KEY = 1]
    /\ disk = EmptyMap
    /\ templates = EmptyMap
    /\ folder = NoFolder
    /\ run = Idle
    /\ \E name \in NamesOf(MaxPieces) : last = [NoClean EXCEPT !.raw = name]
    /\ hist = NoHist
    /\ steps = 0

\* one save under the rule's file name: content is the pages copied
Named(op, content) ==
    /\ steps < MaxNamed
    /\ steps' = steps + 1
    /\ folder' = save_as(ensure_split_folder(folder), out_path(folder, last.raw),
                         content).folder
    /\ last' = [last EXCEPT !.op = op, !.arg = last.raw,
                            !.ret = out_path(folder, last.raw)]
    /\ UNCHANGED <<binder, mem, disk, templates, run, hist>>

SaveRangeNamed == \E e \in Pages : Named("save_range", PageSeq(0, e))

SaveSingleNamed == \E p \in Pages : Named("save_single", <<p>>)

SaveDealerNamed == Named("save_dealer_with_location", <<0, 1>>)

NextName == SaveRangeNamed \/ SaveSingleNamed \/ SaveDealerNamed

SpecName == InitName /\ [][NextName]_vars

\* "YY" occurs in the name
HasYY(name) == \E k \in 1..(Len(name) - 1) : name[k] = "Y" /\ name[k + 1] = "Y"

\* C20: every file name written by save_range, save_single and
\* save_dealer_with_location has no OS-invalid character, has no 'YY' left
\* and ends in '.pdf'.
C20_SavedNamesSanitized ==
    \A name \in DOMAIN folder.files :
        /\ \A k \in 1..Len(name) : name[k] \notin INVALID_CHARS
        /\ ~HasYY(name)
        /\ EndsWith(name, PdfExt)

-----------------------------------------------------------------------------
(* SpecHint: _pattern_hits and _pattern_first_match for rules that carry   *)
(* region hints, called page by page with OCR requests in between.         *)

\* the bands hinted for a pattern of a target: rule["_region_hints"][target][pat]
HintBands(rule, target, pat) ==
    Get(Get(rule.region_hints, target, EmptyMap), pat, <<>>)

\* the loop over the hinted bands of one pattern: the new globals and
\* whether some band matched
RECURSIVE band_scan(_, _, _, _)
band_step(r, page_idx, pat, rest) ==
    IF r.ret # <<>> /\ Search(pat, r.ret) THEN [w |-> r.w, matched |-> TRUE]
    ELSE band_scan(r.w, page_idx, pat, rest)

band_scan(w, page_idx, pat, bands) ==
    IF bands = <<>> THEN [w |-> w, matched |-> FALSE]
    ELSE band_step(get_region_clean(w, page_idx, Head(bands)[1], Head(bands)[2]),
                   page_idx, pat, Tail(bands))

\* a count that looks at the page text only
hit_of_page_only(b, pat, cleaned_text) ==
    IF Search(pat, cleaned_text) THEN 1 ELSE 0

\* one pattern of _pattern_hits: 1 when a hinted band or the page text matches
hit_of(b, pat, cleaned_text) ==
    IF b.matched THEN 1 ELSE IF Search(pat, cleaned_text) THEN 1 ELSE 0

\* the loop of _pattern_hits over the patterns
RECURSIVE hits_loop(_, _, _, _, _, _, _)
hits_next(b, rule, target, patterns, page_idx, cleaned_text, total) ==
    hits_loop(b.w, rule, target, Tail(patterns), page_idx, cleaned_text,
              total + hit_of(b, Head(patterns), cleaned_text))

hits_loop(w, rule, target, patterns, page_idx, cleaned_text, total) ==
    IF patterns = <<>> THEN [w |-> w, ret |-> total]
    ELSE hits_next(band_scan(w, page_idx, Head(patterns),
                             HintBands(rule, target, Head(patterns))),
                   rule, target, patterns, page_idx, cleaned_text, total)

\* the end of _pattern_hits: the count is cached under the page
hits_store(r, key, page_idx) ==
    [w   |-> [r.w EXCEPT
                !.PATTERN_HIT_CACHE = Put(@, key, r.ret),
                !.PATTERN_CACHE_BY_PAGE =
                    Put(@, page_idx, Get(@, page_idx, {}) \cup {key \o <<"hit">>})],
     ret |-> r.ret]

\* _pattern_hits of a rule with region hints: the new globals and the count
pattern_hits_hinted(w, rule, target, patterns, page_idx, cleaned_text) ==
    IF patterns = NoPats THEN [w |-> w, ret |-> 0]
    ELSE IF <<rule.cache_id, target, page_idx>> \in DOMAIN w.PATTERN_HIT_CACHE
    THEN [w |-> w, ret |-> w.PATTERN_HIT_CACHE[<<rule.cache_id, target, page_idx>>]]
    ELSE hits_store(hits_loop(w, rule, target, patterns, page_idx, cleaned_text, 0),
                    <<rule.cache_id, target, page_idx>>, page_idx)

\* the loop of _pattern_first_match over the patterns
RECURSIVE first_loop(_, _, _, _, _, _)
first_next(b, rule, target, patterns, page_idx, cleaned_text) ==
    IF b.matched THEN [w |-> b.w, ret |-> Head(patterns)]
    ELSE IF Search(Head(patterns), cleaned_text) THEN [w |-> b.w, ret |-> Head(patterns)]
    ELSE first_loop(b.w, rule, target, Tail(patterns), page_idx, cleaned_text)

first_loop(w, rule, target, patterns, page_idx, cleaned_text) ==
    IF patterns = <<>> THEN [w |-> w, ret |-> NoPattern]
    ELSE first_next(band_scan(w, page_idx, Head(patterns),
                              HintBands(rule, target, Head(patterns))),
                    rule, target, patterns, page_idx, cleaned_text)

\* the end of _pattern_first_match: the pattern (or None) is cached
first_store(r, key, page_idx) ==
    [w   |-> [r.w EXCEPT
                !.PATTERN_FIRST_CACHE = Put(@, key, r.ret),
                !.PATTERN_CACHE_BY_PAGE =
                    Put(@, page_idx, Get(@, page_idx, {}) \cup {key \o <<"first">>})],
     ret |-> r.ret]

\* _pattern_first_match of a rule with region hints
pattern_first_match_hinted(w, rule, target, patterns, page_idx, cleaned_text) ==
    IF patterns = NoPats THEN [w |-> w, ret |-> NoPattern]
    ELSE IF <<rule.cache_id, target, page_idx>> \in DOMAIN w.PATTERN_FIRST_CACHE
    THEN [w |-> w, ret |-> w.PATTERN_FIRST_CACHE[<<rule.cache_id, target, page_idx>>]]
    ELSE first_store(first_loop(w, rule, target, patterns, page_idx, cleaned_text),
                     <<rule.cache_id, target, page_idx>>, page_idx)

\* the targets a caller asks about, each a pattern list of the rule
HintTargets == {"require_any", "forbid_any", "helpful_cues"}

\* a rule whose require_any and helpful_cues patterns carry hints, and one
\* without hints
HintedRule ==
    [cache_id |-> 0,
     require_any |-> <<"REQ", "FORB", "BODY">>,
     forbid_any |-> <<"FORB", "REQ">>,
     helpful_cues |-> <<"BODY", "REQ">>,
     region_hints |->
        [t \in {"require_any", "helpful_cues"} |->
            IF t = "require_any"
            THEN [p \in {"REQ", "FORB"} |->
                     IF p = "REQ" THEN <<<<0, 50>>, <<50, 100>>>> ELSE <<<<50, 100>>>>]
            ELSE [p \in {"BODY"} |-> <<<<0, 50>>>>]]]

PlainRule == [HintedRule EXCEPT !.cache_id = 1, !.region_hints = EmptyMap]

HintRules == {HintedRule, PlainRule}

HintPageKinds ==
    {MkPage(<<"B120", NL>>, <<"B40", "FORB">>, "clean", FALSE, 1),
     MkPage(<<"B120", "REQ">>, Ink1, "clean", FALSE, 1),
     MkPage(<<"REQ", "B120", "BODY", "FORB">>, Ink1, "clean", FALSE, 1),
     MkPage(ThinText, Ink1, "clean", FALSE, 1)}

InitHint ==
    /\ \E pg \in HintPageKinds : binder = [key |-> 1, pages |-> <<pg>>]
    /\ \E a \in BOOLEAN :
          mem = [FreshGlobals EXCEPT !.DOC = TRUE, !.open_docs = 1, !.ALLOW_OCR = a,
                                     !.CACHE_BINDER_KEY = 1]
    /\ disk = EmptyMap
    /\ templates = EmptyMap
    /\ folder = NoFolder
    /\ run = Idle
    /\ last = NoCall
    /\ hist = NoHist
    /\ steps = 0

\* the call as apply_rules_collect makes it: cleaned_texts[p] is _page_cleaned(p)
hits_call(c, rule, target, p) ==
    pattern_hits_hinted(c.w, rule, target, rule[target], p, c.ret)

first_call(c, rule, target, p) ==
    pattern_first_match_hinted(c.w, rule, target, rule[target], p, c.ret)

CallPatternHits ==
    \E p \in Pages, rule \in HintRules, target \in HintTargets :
        /\ ApiStep
        /\ Commit(hits_call(page_cleaned(Now, p), rule, target, p).w)
        /\ last' = [Call("hits", p, "full", DpiNone,
                         hits_call(page_cleaned(Now, p), rule, target, p).ret)
                      EXCEPT !.rule = [rule |-> rule, target |-> target]]
        /\ UNCHANGED hist

CallPatternFirstMatch ==
    \E p \in Pages, rule \in HintRules, target \in HintTargets :
        /\ ApiStep
        /\ Commit(first_call(page_cleaned(Now, p), rule, target, p).w)
        /\ last' = [Call("first", p, "full", DpiNone,
                         first_call(page_cleaned(Now, p), rule, target, p).ret)
                      EXCEPT !.rule = [rule |-> rule, target |-> target]]
        /\ UNCHANGED hist

NextHint ==
    \/ CallPatternHits
    \/ CallPatternFirstMatch
    \/ CallOcrRegion

SpecHint == InitHint /\ [][NextHint]_vars

\* the globals before the last call, and the page text its caller passed
PreWorld == World(last.pre, last.pre_disk, last.pre_templates)

PassedText == page_cleaned(PreWorld, last.page).ret

\* the text _get_region_clean gives for a band of the last call's page
BandText(b) == get_region_clean(PreWorld, last.page, b[1], b[2]).ret

\* the patterns of the last call, and the bands hinted for pattern number k
LastPats == last.rule.rule[last.rule.target]

LastBands(k) == HintBands(last.rule.rule, last.rule.target, LastPats[k])

\* pattern number k of the last call matches its hinted band number j
BandHit(k, j) == Search(LastPats[k], BandText(LastBands(k)[j]))

\* pattern number k of the last call matches a hinted band or the page text
BandMatch(k) == \E j \in 1..Len(LastBands(k)) : BandHit(k, j)

PageMatch(k) == Search(LastPats[k], PassedText)

\* the bands pattern number k has to read: its hinted bands in order, up to
\* the first that matches
BandsDue(k) ==
    {<<last.page>> \o RegionBand(LastBands(k)[j][1], LastBands(k)[j][2]) :
        j \in {i \in 1..Len(LastBands(k)) : \A h \in 1..(i - 1) : ~BandHit(k, h)}}

\* the patterns the last call had to try: all of them for a count, those up
\* to the first match for a first match
Tried ==
    {k \in 1..Len(LastPats) :
        last.op = "first" => \A h \in 1..(k - 1) : ~(BandMatch(h) \/ PageMatch(h))}

\* the last call was answered by computing, not from the pattern caches
Computed ==
    /\ last.op \in {"hits", "first"}
    /\ <<last.rule.rule.cache_id, last.rule.target, last.page>> \notin
          DOMAIN (IF last.op = "hits" THEN last.pre.PATTERN_HIT_CACHE
                  ELSE last.pre.PATTERN_FIRST_CACHE)

\* C31: a pattern counts once, and exactly when it matches some hinted band
\* or the whole-page text; the first match is the first such pattern; the
\* bands read are the hinted bands of each pattern in order up to the first
\* that matches, so a pattern without a hint reads no band.
C31_HitIffBandOrPage ==
    Computed =>
        /\ last.op = "hits" =>
              last.ret = Cardinality({k \in 1..Len(LastPats) :
                                         BandMatch(k) \/ PageMatch(k)})
        /\ last.op = "first" =>
              \/ /\ last.ret = NoPattern
                 /\ \A k \in 1..Len(LastPats) : ~(BandMatch(k) \/ PageMatch(k))
              \/ \E k \in 1..Len(LastPats) :
                    /\ last.ret = LastPats[k]
                    /\ BandMatch(k) \/ PageMatch(k)
                    /\ \A j \in 1..(k - 1) : ~(BandMatch(j) \/ PageMatch(j))
        /\ DOMAIN mem.REGION_TEXT_CACHE =
              (DOMAIN last.pre.REGION_TEXT_CACHE) \cup UNION {BandsDue(k) : k \in Tried}

\* a hinted pattern was counted through a band although the page text does
\* not hold it, another through the page text although no band holds it
C31_Witness ==
    /\ Computed
    /\ last.op = "hits"
    /\ \E k \in 1..Len(LastPats) : BandMatch(k) /\ ~PageMatch(k)
    /\ \E k \in 1..Len(LastPats) : PageMatch(k) /\ ~BandMatch(k) /\ LastBands(k) # <<>>

-----------------------------------------------------------------------------
(* SpecTemplate: the template store on its own, with _template_match and   *)
(* _template_save (eviction included) called in any order on stores that   *)
(* earlier runs have filled.                                               *)

TEMPLATE_CACHE_MAX_PER_RULE == 20

TEMPLATE_CACHE_MAX_BYTES == 209715200

MaxTemplateOps == 2

\* os.path.getsize of an entry's file: the JSON of its fields
entry_size(e) == 300 + TextLen(e.raw) + TextLen(e.clean)

\* a < b and a <= b for tuples of numbers, as Python compares them
RECURSIVE TupleLess(_, _)
TupleLess(a, b) ==
    IF a = <<>> \/ b = <<>> THEN FALSE
    ELSE Head(a) < Head(b) \/ (Head(a) = Head(b) /\ TupleLess(Tail(a), Tail(b)))

\* _template_entry_rank of an entry whose "_size" is size
template_entry_rank(e, size) ==
    <<e.hits, e.tokens_count, e.length, e.last_used, e.created, 0 - size>>

\* _template_mark_usage with the clock: one more hit, used now
template_mark_usage_at(r, now) ==
    IF r.hit THEN [r EXCEPT !.w.templates[r.key].last_used = now] ELSE r

\* the entry _template_save has written under k, with the time stamps and the
\* token count of its payload; w0 is the store before the write
template_stamped(w1, k, w0, now) ==
    [w1 EXCEPT !.templates[k] =
        @ @@ [created      |-> IF k \in DOMAIN w0.templates
                                  /\ template_load_entry(w0.templates[k])
                               THEN w0.templates[k].created ELSE now,
              last_used    |-> IF k \in DOMAIN w0.templates
                                  /\ template_load_entry(w0.templates[k])
                               THEN w0.templates[k].last_used ELSE now,
              tokens_count |-> Cardinality(@.tokens)]]

\* the entries _template_collect_entries loads first in sorted order: no
\* other entry has a smaller rank; "_size" is not set on them
rule_lowest(w, rule_name) ==
    {d \in template_collect_entries(w, rule_name) :
        \A s \in template_collect_entries(w, rule_name) :
            ~TupleLess(template_entry_rank(w.templates[s], 0),
                       template_entry_rank(w.templates[d], 0))}

\* _template_evict_rule: the stores it can leave, one for each order in
\* which the sort can meet entries of equal rank
RECURSIVE template_evict_rule(_, _)
template_evict_rule(w, rule_name) ==
    IF Cardinality(template_collect_entries(w, rule_name)) <= TEMPLATE_CACHE_MAX_PER_RULE
    THEN {w}
    ELSE UNION {template_evict_rule([w EXCEPT !.templates = Pop(@, d)], rule_name) :
                   d \in rule_lowest(w, rule_name)}

\* the valid entries of every rule, and the sum of their file sizes
valid_entries(w) == {k \in DOMAIN w.templates : template_load_entry(w.templates[k])}

RECURSIVE SumSizes(_, _)
SumSizes(w, ks) ==
    IF ks = {} THEN 0
    ELSE entry_size(w.templates[CHOOSE k \in ks : TRUE])
         + SumSizes(w, ks \ {CHOOSE k \in ks : TRUE})

\* the entries the global sort can put first: "_size" is the file size
global_lowest(w) ==
    {d \in valid_entries(w) :
        \A s \in valid_entries(w) :
            ~TupleLess(template_entry_rank(w.templates[s], entry_size(w.templates[s])),
                       template_entry_rank(w.templates[d], entry_size(w.templates[d])))}

\* _template_evict_global: the stores it can leave
RECURSIVE template_evict_global(_)
template_evict_global(w) ==
    IF SumSizes(w, valid_entries(w)) <= TEMPLATE_CACHE_MAX_BYTES THEN {w}
    ELSE UNION {template_evict_global([w EXCEPT !.templates = Pop(@, d)]) :
                   d \in global_lowest(w)}

\* the file _template_save writes for a text
template_key(rule_name, clean) == <<rule_name, PrefixChars(clean, 400)>>

\* _template_save up to the write of the entry, at time now
template_written(w, rule_name, entry, clean, now) ==
    IF rule_name = "" \/ clean = <<>> THEN w
    ELSE template_stamped(template_save(w, rule_name, entry, clean),
                          template_key(rule_name, clean), w, now)

\* the OCR entry of a page whose text is raw and whose image signature is sig
OcrEntryOf(raw, sig) ==
    [raw |-> raw, clean |-> clean_text(raw), dpi |-> 300, avg_conf |-> 90,
     length |-> TextLen(clean_text(raw)), image_sig |-> sig]

\* a store as earlier runs leave it: the texts saved one after the other at
\* the times given, then matched hits times
RECURSIVE StoreOf(_)
StoreOf(saves) ==
    IF saves = <<>> THEN World(FreshGlobals, EmptyMap, EmptyMap)
    ELSE [template_written(StoreOf(SubSeq(saves, 1, Len(saves) - 1)),
                           saves[Len(saves)].rule,
                           OcrEntryOf(saves[Len(saves)].raw, saves[Len(saves)].sig),
                           clean_text(saves[Len(saves)].raw),
                           saves[Len(saves)].at)
            EXCEPT !.templates[template_key(saves[Len(saves)].rule,
                                            clean_text(saves[Len(saves)].raw))].hits =
                      saves[Len(saves)].hits]

EarlierSave(rule, raw, sig, at, hits) ==
    [rule |-> rule, raw |-> raw, sig |-> sig, at |-> at, hits |-> hits]

Words5 == <<"ALFA", "BRAV", "CHAR", "DELT", "ECHO">>

\* twenty page names
Fill ==
    <<"F01", "F02", "F03", "F04", "F05", "F06", "F07", "F08", "F09", "F10",
      "F11", "F12", "F13", "F14", "F15", "F16", "F17", "F18", "F19", "F20">>

\* a few entries of two rules with different prefixes, tokens and signatures
SmallStore ==
    StoreOf(<<EarlierSave("SSA IL", Words5, 1, 1, 0),
              EarlierSave("SSA IL", <<"ALFA", "BRAV">>, 2, 1, 2),
              EarlierSave("SSA IL", <<"B120", "REQ">>, SigNone, 2, 0),
              EarlierSave("Proposal", <<"ZULU">> \o Words5, 2, 2, 1)>>)

\* a rule at its cap: twenty entries, the first two saved in the same clock
\* tick with texts of different length around the same words, the others
\* used since
FullStore ==
    StoreOf(<<EarlierSave("SSA IL", <<"F01", "-", "-", "-">>, 1, 1, 0),
              EarlierSave("SSA IL", <<"F02">>, 2, 1, 0)>>
            \o [i \in 1..18 |-> EarlierSave("SSA IL", <<Fill[i + 2], "B40">>, 1, 2, 1 + (i % 2))])

\* a store near the byte cap: two very long pages
HeavyStore ==
    StoreOf(<<EarlierSave("SSA IL", <<"B90M", "ALFA">>, 1, 1, 1),
              EarlierSave("Proposal", <<"B90M", "BRAV">>, 2, 2, 0)>>)

TemplateStores == {StoreOf(<<>>), SmallStore, FullStore, HeavyStore}

\* the texts handed to _template_save and the seeds handed to _template_match
TemplateTexts ==
    {Words5, <<"ZULU">> \o Words5, <<"ZULU", "ALFA", "BRAV", "CHAR", "DELT">>,
     <<"ALFA">>, <<"-">>, <<"F21", "-">>, <<"B90M", "CHAR">>}

TemplateRules == {"SSA IL", "Proposal"}

\* the clock: never before a time stamp already stored
Latest(t) ==
    IF DOMAIN t = {} THEN 1
    ELSE CHOOSE n \in {t[k].last_used : k \in DOMAIN t} :
            \A k \in DOMAIN t : t[k].last_used <= n

InitTemplate ==
    /\ binder = [key |-> 1, pages |-> <<MkPage(LongText, Ink1, "clean", FALSE, 1)>>]
    /\ mem = FreshGlobals
    /\ disk = EmptyMap
    /\ \E s \in TemplateStores : templates = s.templates
    /\ folder = NoFolder
    /\ run = Idle
    /\ last = NoCall
    /\ hist = NoHist
    /\ steps = 0

TemplateStep ==
    /\ steps < MaxTemplateOps
    /\ steps' = steps + 1
    /\ UNCHANGED <<binder, folder, run, hist>>

CallTemplateMatch ==
    \E rule_name \in TemplateRules, seed \in TemplateTexts, sig \in {SigNone, 1},
       now \in {Latest(templates) + 1} :
        /\ TemplateStep
        /\ Commit(template_mark_usage_at(template_match(Now, rule_name, seed, sig), now).w)
        /\ last' = [Call("template_match", 0, "full", DpiNone,
                         [hit |-> template_match(Now, rule_name, seed, sig).hit,
                          key |-> template_match(Now, rule_name, seed, sig).key,
                          seed |-> seed, sig |-> sig, now |-> now])
                      EXCEPT !.rule = rule_name]

CallTemplateSave ==
    \E rule_name \in TemplateRules, raw \in TemplateTexts, sig \in {1},
       now \in {Latest(templates), Latest(templates) + 1} :
      \E w2 \in template_evict_rule(
                   template_written(Now, rule_name, OcrEntryOf(raw, sig),
                                    clean_text(raw), now), rule_name) :
        \E w3 \in template_evict_global(w2) :
            /\ TemplateStep
            /\ Commit(w3)
            /\ last' = [Call("template_save", 0, "full", DpiNone,
                             [written |-> template_written(Now, rule_name,
                                              OcrEntryOf(raw, sig), clean_text(raw),
                                              now).templates,
                              after_rule |-> w2.templates])
                          EXCEPT !.rule = rule_name]

NextTemplate ==
    \/ CallTemplateMatch
    \/ CallTemplateSave

SpecTemplate == InitTemplate /\ [][NextTemplate]_vars

\* the valid entries the rule of the last call had before the call
ValidBefore ==
    {k \in DOMAIN last.pre_templates :
        /\ k[1] = last.rule
        /\ last.pre_templates[k].file = "object"
        /\ last.pre_templates[k].version = TEMPLATE_CACHE_VERSION}

\* the seed of the last _template_match: its first 200 characters, its tokens
SeedPrefix == PrefixChars(clean_text(last.ret.seed), 200)

SeedTokens == template_extract_tokens(clean_text(last.ret.seed), 50)

\* the score of a stored entry against the seed: 100 for a mutual prefix
\* match, the size of the token intersection, 200 for an equal signature
SeedScore(k) ==
    (IF SeedPrefix # <<>> /\ last.pre_templates[k].prefix # <<>>
        /\ (\/ StartsWith(SeedPrefix, last.pre_templates[k].prefix)
            \/ StartsWith(last.pre_templates[k].prefix, SeedPrefix))
     THEN 100 ELSE 0)
    + Cardinality(SeedTokens \cap last.pre_templates[k].tokens)
    + (IF last.ret.sig # SigNone /\ last.pre_templates[k].image_sig = last.ret.sig
       THEN 200 ELSE 0)

\* C32: _template_match returns a valid entry of the rule with the greatest
\* score when that score is at least 5, and none when every entry scores
\* below 5 or the seed has no prefix, tokens or signature; the entry returned
\* has one more hit in the store, and nothing else of the store changes
\* but its time of last use.
C32_BestEntryReturned ==
    last.op = "template_match" =>
        /\ last.ret.hit =>
              /\ last.ret.key \in ValidBefore
              /\ SeedScore(last.ret.key) >= 5
              /\ \A j \in ValidBefore : SeedScore(j) <= SeedScore(last.ret.key)
              /\ DOMAIN templates = DOMAIN last.pre_templates
              /\ templates[last.ret.key] =
                    [last.pre_templates[last.ret.key] EXCEPT !.hits = @ + 1,
                                                            !.last_used = last.ret.now]
              /\ \A j \in DOMAIN templates \ {last.ret.key} :
                    templates[j] = last.pre_templates[j]
        /\ ~last.ret.hit =>
              /\ \A j \in ValidBefore : SeedScore(j) < 5
              /\ templates = last.pre_templates
        /\ (SeedPrefix = <<>> /\ SeedTokens = {} /\ last.ret.sig = SigNone) => ~last.ret.hit

\* an entry was returned over another that also scored 5 or more, and had
\* been hit before
C32_Witness ==
    /\ last.op = "template_match"
    /\ last.ret.hit
    /\ last.pre_templates[last.ret.key].hits > 0
    /\ \E j \in ValidBefore :
          SeedScore(j) >= 5 /\ SeedScore(j) < SeedScore(last.ret.key)

\* the rank of an entry of store t as the claim states it: hits, token
\* count, text length, last_used, created, minus the file size
FullRank(t, k) == template_entry_rank(t[k], entry_size(t[k]))

\* in an eviction that took store t to store u, no deleted entry ranks
\* above a surviving one among the entries ks
NoHigherDeleted(t, u, ks) ==
    \A d \in (DOMAIN t \ DOMAIN u) \cap ks, s \in (DOMAIN u) \cap ks :
        ~TupleLess(FullRank(t, s), FullRank(t, d))

\* C33: after _template_save the rule holds at most 20 valid entries and the
\* store at most the byte cap, and in the per-rule and in the global
\* eviction every deleted entry ranks no higher than every surviving one.
C33_EvictionByRank ==
    last.op = "template_save" =>
        /\ Cardinality(template_collect_entries(Now, last.rule))
              <= TEMPLATE_CACHE_MAX_PER_RULE
        /\ SumSizes(Now, DOMAIN templates) <= TEMPLATE_CACHE_MAX_BYTES
        /\ NoHigherDeleted(last.ret.written, last.ret.after_rule,
                           {k \in DOMAIN last.ret.written : k[1] = last.rule})
        /\ NoHigherDeleted(last.ret.after_rule, templates, DOMAIN last.ret.after_rule)

-----------------------------------------------------------------------------
(* SpecPost: the post-processing at the end of apply_rules_collect, on the *)
(* Dealer Application ranges and Location pages the rule loops collected.  *)

PostPages == 9

\* the Dealer Application ranges the range loop can collect: one after the
\* other, each claiming its pages
DealerRanges ==
    {<<s, e>> : s \in 0..(PostPages - 1), e \in 0..(PostPages - 1)} 

DealerLists ==
    {<<>>}
    \cup {<<a>> : a \in {r \in DealerRanges : r[1] <= r[2]}}
    \cup {<<a, b>> : a \in {r \in DealerRanges : r[1] <= r[2] /\ r[2] - r[1] \in {0, 4}},
                     b \in {r \in DealerRanges : r[1] <= r[2] /\ r[2] - r[1] <= 1}}

\* the pages of the ranges of a list
Claimed(ds) == UNION {ds[k][1]..ds[k][2] : k \in 1..Len(ds)}

\* the Location pages the single-page loop can collect after those ranges:
\* untaken pages in rising order
LocationLists(ds) ==
    {<<>>}
    \cup {<<a>> : a \in (0..(PostPages - 1)) \ Claimed(ds)}
    \cup {p \in ((0..(PostPages - 1)) \ Claimed(ds)) \X ((0..(PostPages - 1)) \ Claimed(ds)) :
             p[1] < p[2]}
    \cup {t \in ((0..(PostPages - 1)) \ Claimed(ds)) \X ((0..(PostPages - 1)) \ Claimed(ds))
                   \X ((0..(PostPages - 1)) \ Claimed(ds)) :
             t[1] < t[2] /\ t[2] < t[3]}

DealerMatch(r, hit_ok) ==
    [start |-> r[1], end |-> r[2], prefix |-> tag_if_missed(Out("Dealer"), ~hit_ok),
     hit_ok |-> hit_ok]

LocationMatch(p) == [page |-> p, prefix |-> Out("Loc")]

InitPost ==
    /\ binder = [key |-> 1, pages |-> <<MkPage(LongText, Ink1, "clean", FALSE, 1)>>]
    /\ mem = FreshGlobals
    /\ disk = EmptyMap
    /\ templates = EmptyMap
    /\ folder = NoFolder
    /\ \E ds \in DealerLists, hit_ok \in BOOLEAN :
         /\ \A a, b \in 1..Len(ds) : a < b => ds[a][2] < ds[b][1]
         /\ \E ls \in LocationLists(ds) :
              /\ run = [pc |-> "post", folder |-> NoFolder,
                        dealer_matches |-> [k \in 1..Len(ds) |-> DealerMatch(ds[k], hit_ok)],
                        location_matches |-> [k \in 1..Len(ls) |-> LocationMatch(ls[k])],
                        posts |-> <<>>, session_paths |-> <<>>, written |-> {},
                        auto_saved |-> 0]
    /\ last = NoCall
    /\ hist = NoHist
    /\ steps = 0

\* lines 2315-2337 of apply_rules_collect
PostProcess ==
    /\ run.pc = "post"
    /\ run' = [post_locations(post_dealers(run)) EXCEPT !.pc = "done"]
    /\ folder' = post_locations(post_dealers(run)).folder
    /\ last' = Call("post", 0, "full", DpiNone,
                    [dealers |-> run.dealer_matches, locations |-> run.location_matches])
    /\ UNCHANGED <<binder, mem, disk, templates, hist, steps>>

NextPost == PostProcess

SpecPost == InitPost /\ [][NextPost]_vars

\* the pages of a Dealer range with the Location page loc put in after the
\* page min(start + 3, end)
WithLocation(d, loc) ==
    [j \in 1..(d.end - d.start + 2) |->
        IF j <= Min2(d.start + 3, d.end) - d.start + 1 THEN d.start + j - 1
        ELSE IF j = Min2(d.start + 3, d.end) - d.start + 2 THEN loc
        ELSE d.start + j - 2]

\* the pages of the k-th file the post-processing wrote
PostFile(k) == folder.files[run.session_paths[k]]

\* C34: each Dealer match gives one file: the k-th Dealer range with the
\* k-th Location page put in after page min(start + 3, end) when there is a
\* k-th Location page, the plain range otherwise; each Location page left
\* over gives a file of that page alone; no Location page is in two files.
C34_DealerPairing ==
    run.pc = "done" =>
        /\ Len(run.session_paths) =
              Len(last.ret.dealers)
              + (IF Len(last.ret.locations) > Len(last.ret.dealers)
                 THEN Len(last.ret.locations) - Len(last.ret.dealers) ELSE 0)
        /\ run.auto_saved = Len(run.session_paths)
        /\ \A a, b \in 1..Len(run.session_paths) :
              a # b => run.session_paths[a] # run.session_paths[b]
        /\ \A k \in 1..Len(last.ret.dealers) :
              IF k <= Len(last.ret.locations)
              THEN /\ PostFile(k) = WithLocation(last.ret.dealers[k],
                                                 last.ret.locations[k].page)
                   /\ Len(PostFile(k)) =
                         last.ret.dealers[k].end - last.ret.dealers[k].start + 2
              ELSE PostFile(k) = PageSeq(last.ret.dealers[k].start, last.ret.dealers[k].end)
        /\ \A k \in (Len(last.ret.dealers) + 1)..Len(last.ret.locations) :
              PostFile(k) = <<last.ret.locations[k].page>>
        /\ \A k \in 1..Len(last.ret.locations) :
              Cardinality({j \in 1..Len(run.session_paths) :
                              \E x \in 1..Len(PostFile(j)) :
                                  PostFile(j)[x] = last.ret.locations[k].page}) = 1

\* two Dealer ranges, the first longer than four pages, and three Location
\* pages: two paired, one saved alone
C34_Witness ==
    /\ run.pc = "done"
    /\ Len(last.ret.dealers) = 2
    /\ Len(last.ret.locations) = 3
    /\ last.ret.dealers[1].end > last.ret.dealers[1].start + 3
    /\ Len(run.session_paths) = 3

\* the rule of HintRules that has cache id rid
RuleOfId(rid) == CHOOSE r \in HintRules : r.cache_id = rid

\* the count and the first match computed afresh for a cache key from the
\* page's clean text as it is now
FreshHits(key) ==
    hits_loop(page_cleaned(Now, key[3]).w, RuleOfId(key[1]), key[2],
              RuleOfId(key[1])[key[2]], key[3], page_cleaned(Now, key[3]).ret, 0).ret

FreshFirst(key) ==
    first_loop(page_cleaned(Now, key[3]).w, RuleOfId(key[1]), key[2],
               RuleOfId(key[1])[key[2]], key[3], page_cleaned(Now, key[3]).ret).ret

-----------------------------------------------------------------------------
(* _force_full_page_ocr without force, under SpecOcr.                      *)

\* the last call was _force_full_page_ocr without force
NonForced == last.op = "force" /\ ~last.force

ForceKey == <<last.page, "full">>

\* the runs of the OCR engine during the last call
EngineRunsOfCall == mem.ocr_runs - last.pre.ocr_runs

\* the last call found the page neither forced nor on disk and filled it
\* from a template
TemplateFilled ==
    /\ NonForced
    /\ ForceKey \notin last.pre.FORCED_OCR_CACHE
    /\ ~(ForceKey \notin DOMAIN last.pre.OCR_RESULT_CACHE
         /\ HasDiskCache(PreWorld, last.page, "full"))
    /\ last.rule # ""
    /\ force_template_lookup(PreWorld, last.page, last.rule, <<>>).hit

\* the DPI steps one forced request can go through: 300 and the steps above
ForcePasses == 1 + Cardinality({k \in DOMAIN ADAPTIVE_DPI_STEPS : ADAPTIVE_DPI_STEPS[k] > 300})

\* C38 as stated: a call without force runs the OCR engine at most once for
\* the page, not at all when the page was forced, restored or filled from a
\* template before in the session, and not at all on a template hit.
C38_EngineOncePerPage ==
    NonForced =>
        /\ EngineRunsOfCall <= 1
        /\ ForceKey \in last.pre.FORCED_OCR_CACHE => EngineRunsOfCall = 0
        /\ TemplateFilled => EngineRunsOfCall = 0
        /\ ForceKey \in mem.FORCED_OCR_CACHE

\* C38, amended: a call without force makes at most one OCR request for the
\* page, which runs the engine at most once per DPI step from 300 up; it
\* runs no OCR when the page was forced, restored or filled from a template
\* before in the session, and none on a template hit; the page is marked.
C38_OneRequestPerPage ==
    NonForced =>
        /\ EngineRunsOfCall <= ForcePasses
        /\ ForceKey \in last.pre.FORCED_OCR_CACHE => EngineRunsOfCall = 0
        /\ TemplateFilled => EngineRunsOfCall = 0
        /\ ForceKey \in mem.FORCED_OCR_CACHE

\* a call without force on a page forced before in the session ran nothing,
\* after a request that had gone through more than one DPI step
C38_Witness ==
    /\ NonForced
    /\ ForceKey \in last.pre.FORCED_OCR_CACHE
    /\ EngineRunsOfCall = 0
    /\ Len(last.pre.ocr_log) >= 2

====
